---- MODULE Spec2Model ----
(***************************************************************************)
(* Retrieval pipeline of the document question-answering backend:          *)
(* functions/src/index.ts (askQuestion and its helpers) and                *)
(* functions/src/processUpload.ts (the ingestion chunker).                 *)
(*                                                                         *)
(* Text is a sequence of one-character strings, so that splitting, joining *)
(* and trimming are computed rather than assumed.                          *)
(***************************************************************************)
EXTENDS Integers, Sequences, FiniteSets, TLC

(***************************************************************************)
(* Strings                                                                 *)
(***************************************************************************)

\* The characters String.prototype.trim removes and /\s/ matches (the ASCII
\* ones; both JavaScript notions use the same character set).
WhiteSpace == {" ", "\t", "\n", "\r", "\f"}

Min(a, b) == IF a <= b THEN a ELSE b

Max(a, b) == IF a >= b THEN a ELSE b

\* The concatenation F(lo) \o F(lo+1) \o ... \o F(hi), by bisection.
RECURSIVE ConcatMap(_, _, _)
ConcatMap(F(_), lo, hi) ==
  IF lo > hi THEN <<>>
  ELSE IF lo = hi THEN F(lo)
  ELSE LET mid == (lo + hi) \div 2
       IN  ConcatMap(F, lo, mid) \o ConcatMap(F, mid + 1, hi)

\* Array.prototype.slice(start, end) and String.prototype.slice: a negative
\* bound counts from the end, both are clamped to 0..length, and an end at or
\* before the start gives the empty sequence.
JsSlice(s, start, end) ==
  LET n    == Len(s)
      from == IF start < 0 THEN Max(n + start, 0) ELSE Min(start, n)
      to   == IF end < 0 THEN Max(n + end, 0) ELSE Min(end, n)
  IN  IF to <= from THEN <<>> ELSE SubSeq(s, from + 1, to)

\* String.prototype.trim
Trim(s) ==
  LET keep == {i \in 1..Len(s) : s[i] \notin WhiteSpace}
  IN  IF keep = {} THEN <<>>
      ELSE SubSeq(s, CHOOSE i \in keep : \A j \in keep : i <= j,
                     CHOOSE i \in keep : \A j \in keep : j <= i)

\* The last position of the run of non-whitespace characters that holds i.
RunEnd(s, i) ==
  CHOOSE j \in i..Len(s) :
    /\ \A k \in i..j : s[k] \notin WhiteSpace
    /\ (j = Len(s) \/ s[j + 1] \in WhiteSpace)

\* text.split(/\s+/): the pieces between the maximal whitespace runs, with an
\* empty piece in front of a leading run and after a trailing one.
SplitWhitespace(s) ==
  IF s = <<>> THEN << <<>> >>
  ELSE LET lead  == IF s[1] \in WhiteSpace THEN << <<>> >> ELSE <<>>
           trail == IF s[Len(s)] \in WhiteSpace THEN << <<>> >> ELSE <<>>
           Piece(i) ==
             IF s[i] \notin WhiteSpace /\ (i = 1 \/ s[i - 1] \in WhiteSpace)
             THEN << SubSeq(s, i, RunEnd(s, i)) >>
             ELSE <<>>
       IN  lead \o ConcatMap(Piece, 1, Len(s)) \o trail

\* Array.prototype.filter(Boolean) on strings: the empty string is falsy.
FilterBoolean(ss) == SelectSeq(ss, LAMBDA w : w # <<>>)

\* Array.prototype.join(sep)
Join(ss, sep) ==
  LET Part(k) == IF k = 1 THEN ss[k] ELSE sep \o ss[k]
  IN  ConcatMap(Part, 1, Len(ss))

(***************************************************************************)
(* Chunker: chunkTextByWords (the same function in index.ts and in         *)
(* processUpload.ts)                                                       *)
(***************************************************************************)

\* The loop, were `if (end === words.length) break` to come before the push.
RECURSIVE ChunkLoopBreakFirst(_, _, _, _, _)
ChunkLoopBreakFirst(words, targetWords, step, start, chunks) ==
  IF ~(start < Len(words)) THEN chunks
  ELSE LET end    == Min(Len(words), start + targetWords)
           slice  == Join(JsSlice(words, start, end), <<" ">>)
           pushed == IF Trim(slice) # <<>> THEN Append(chunks, slice) ELSE chunks
       IN  IF end = Len(words) THEN chunks
           ELSE ChunkLoopBreakFirst(words, targetWords, step, start + step, pushed)

\* The loop, were it to stop at the last full window: a shorter tail window
\* is never pushed.
RECURSIVE ChunkLoopDropTail(_, _, _, _, _)
ChunkLoopDropTail(words, targetWords, step, start, chunks) ==
  IF ~(start + targetWords <= Len(words)) THEN chunks
  ELSE LET end    == Min(Len(words), start + targetWords)
           slice  == Join(JsSlice(words, start, end), <<" ">>)
           pushed == IF Trim(slice) # <<>> THEN Append(chunks, slice) ELSE chunks
       IN  IF end = Len(words) THEN pushed
           ELSE ChunkLoopDropTail(words, targetWords, step, start + step, pushed)

\* The for loop of chunkTextByWords from `start` on, `chunks` being the
\* chunks pushed so far.
RECURSIVE ChunkLoop(_, _, _, _, _)
ChunkLoop(words, targetWords, step, start, chunks) ==
  IF ~(start < Len(words)) THEN chunks
  ELSE LET end    == Min(Len(words), start + targetWords)
           slice  == Join(JsSlice(words, start, end), <<" ">>)
           pushed == IF Trim(slice) # <<>> THEN Append(chunks, slice) ELSE chunks
       IN  IF end = Len(words) THEN pushed
           ELSE ChunkLoop(words, targetWords, step, start + step, pushed)

\* The chunker, were its step one word longer.
chunkTextByWordsStepPlusOne(text, targetWords, overlapWords) ==
  IF text = <<>> THEN <<>>
  ELSE LET words == FilterBoolean(SplitWhitespace(text))
       IN  IF Len(words) = 0 THEN <<>>
           ELSE ChunkLoop(words, targetWords,
                          Max(1, targetWords - Max(0, overlapWords)) + 1, 0, <<>>)

\* The chunker, were its step max(1, targetWords - overlapWords): a negative
\* overlap widens the step beyond the window.
chunkTextByWordsRawOverlap(text, targetWords, overlapWords) ==
  IF text = <<>> THEN <<>>
  ELSE LET words == FilterBoolean(SplitWhitespace(text))
       IN  IF Len(words) = 0 THEN <<>>
           ELSE ChunkLoop(words, targetWords, Max(1, targetWords - overlapWords), 0, <<>>)

chunkTextByWords(text, targetWords, overlapWords) ==
  IF text = <<>> THEN <<>>
  ELSE LET words == FilterBoolean(SplitWhitespace(text))
       IN  IF Len(words) = 0 THEN <<>>
           ELSE ChunkLoop(words, targetWords,
                          Max(1, targetWords - Max(0, overlapWords)), 0, <<>>)

(***************************************************************************)
(* More strings: case, substrings, decimal numerals                        *)
(***************************************************************************)

LowerLetters == <<"a", "b", "c", "d", "e", "f", "g", "h", "i", "j", "k", "l", "m",
                  "n", "o", "p", "q", "r", "s", "t", "u", "v", "w", "x", "y", "z">>

UpperLetters == <<"A", "B", "C", "D", "E", "F", "G", "H", "I", "J", "K", "L", "M",
                  "N", "O", "P", "Q", "R", "S", "T", "U", "V", "W", "X", "Y", "Z">>

DigitChars == <<"0", "1", "2", "3", "4", "5", "6", "7", "8", "9">>

\* The characters [a-z0-9] of the term-splitting pattern /[^a-z0-9]+/.
AlphaNum == {LowerLetters[i] : i \in 1..26} \cup {DigitChars[i] : i \in 1..10}

\* String.prototype.toLowerCase
ToLowerCase(s) ==
  [i \in 1..Len(s) |->
     IF \E k \in 1..26 : UpperLetters[k] = s[i]
     THEN LowerLetters[CHOOSE k \in 1..26 : UpperLetters[k] = s[i]]
     ELSE s[i]]

\* String.prototype.includes
Includes(s, t) ==
  \E i \in 0..(Len(s) - Len(t)) : SubSeq(s, i + 1, i + Len(t)) = t

\* String.prototype.startsWith
StartsWith(s, t) == Len(s) >= Len(t) /\ SubSeq(s, 1, Len(t)) = t

\* The decimal numeral of a natural number, as a template literal prints it.
RECURSIVE Decimal(_)
Decimal(n) ==
  IF n < 10 THEN << DigitChars[n + 1] >>
  ELSE Decimal(n \div 10) \o << DigitChars[(n % 10) + 1] >>

\* question.split(/[^a-z0-9]+/).filter(Boolean): the maximal runs of
\* characters of [a-z0-9], in order (the empty pieces are filtered out).
AlnumRunEnd(s, i) ==
  CHOOSE j \in i..Len(s) :
    /\ \A k \in i..j : s[k] \in AlphaNum
    /\ (j = Len(s) \/ s[j + 1] \notin AlphaNum)

SplitNonAlnum(s) ==
  LET Piece(i) ==
        IF s[i] \in AlphaNum /\ (i = 1 \/ s[i - 1] \notin AlphaNum)
        THEN << SubSeq(s, i, AlnumRunEnd(s, i)) >>
        ELSE <<>>
  IN  ConcatMap(Piece, 1, Len(s))

\* Array.from({ length: take }, (_, i) => i): a length below 0 counts as 0.
\* Array.from, were its callback to count from 1.
ArrayFromLengthFromOne(take) == [i \in 1..Max(take, 0) |-> i]

\* Array.from({ length: take }, (_, i) => i); a negative length counts as 0.
ArrayFromLength(take) == [i \in 1..Max(take, 0) |-> i - 1]

\* Array.prototype.sort with comparator (a, b) => Key(b) - Key(a), that is
\* Before(a, b) when the comparator is negative. The sort is stable (ES2019):
\* an element goes behind every earlier element it is not strictly before.
RECURSIVE InsertStable(_, _, _)
InsertStable(Before(_, _), x, sorted) ==
  IF sorted = <<>> THEN << x >>
  ELSE LET last == sorted[Len(sorted)]
       IN  IF Before(x, last)
           THEN Append(InsertStable(Before, x, SubSeq(sorted, 1, Len(sorted) - 1)), last)
           ELSE Append(sorted, x)

RECURSIVE SortStableFrom(_, _, _, _)
SortStableFrom(Before(_, _), s, k, sorted) ==
  IF k > Len(s) THEN sorted
  ELSE SortStableFrom(Before, s, k + 1, InsertStable(Before, s[k], sorted))

JsSort(Before(_, _), s) == SortStableFrom(Before, s, 1, <<>>)

(***************************************************************************)
(* Prefilter: prefilterChunks                                              *)
(***************************************************************************)

\* The usable terms of a question, repeats kept.
QueryTerms(question) ==
  SelectSeq(SplitNonAlnum(ToLowerCase(question)), LAMBDA t : Len(t) > 2)

\* The score of one chunk: one point per element of `terms` it includes.
TermScore(terms, c) ==
  LET lc == ToLowerCase(c)
  IN  Cardinality({k \in 1..Len(terms) : Includes(lc, terms[k])})

\* prefilterChunks, were its sort to put the later of two equal scores first.
prefilterChunksTiesReversed(question, chunks, cap) ==
  LET terms == QueryTerms(question)
      take  == Min(cap, Len(chunks))
  IN  IF Len(terms) = 0 THEN ArrayFromLength(take)
      ELSE LET scored == JsSort(LAMBDA a, b : b.score - a.score <= 0,
                                [k \in 1..Len(chunks) |->
                                   [i |-> k - 1, score |-> TermScore(terms, chunks[k])]])
               sliced == JsSlice(scored, 0, take)
               topIdx == [k \in 1..Len(sliced) |-> sliced[k].i]
               hasSignal == Len(scored) > 0 /\ scored[1].score > 0
           IN  IF hasSignal THEN topIdx ELSE ArrayFromLength(take)

\* The indices are those of the JavaScript array (from 0).
prefilterChunks(question, chunks, cap) ==
  LET terms == QueryTerms(question)
      take  == Min(cap, Len(chunks))
  IN  IF Len(terms) = 0 THEN ArrayFromLength(take)
      ELSE LET scored == JsSort(LAMBDA a, b : b.score - a.score < 0,
                                [k \in 1..Len(chunks) |->
                                   [i |-> k - 1, score |-> TermScore(terms, chunks[k])]])
               sliced == JsSlice(scored, 0, take)
               topIdx == [k \in 1..Len(sliced) |-> sliced[k].i]
               hasSignal == Len(scored) > 0 /\ scored[1].score > 0
           IN  IF hasSignal THEN topIdx ELSE ArrayFromLength(take)

(***************************************************************************)
(* Similarity: cosineSimilarity                                            *)
(*                                                                         *)
(* A similarity is kept exact as the pair num / sqrt(den): the cosine of   *)
(* integer vectors is dot / sqrt(normA * normB). Comparisons cross-multiply*)
(* the squares, so 0.6 (3/sqrt 25) and 0.8 (4/sqrt 25) are hit exactly.    *)
(***************************************************************************)

\* An optional value: `undefined`, or a value (Vec: an array of numbers).
Undefined == [defined |-> FALSE, val |-> <<>>]

Some(v) == [defined |-> TRUE, val |-> v]

Vec(v) == Some(v)

Sim(num, den) == [num |-> num, den |-> den]

SimZero == Sim(0, 1)

\* -Infinity, what Math.max() of no arguments is.
NegInfinity == Sim(-1, 0)

\* t |-> sign(t) * t^2 * d, increasing in t.
SignedSquare(t, d) == IF t >= 0 THEN t * t * d ELSE -(t * t * d)

SimLess(a, b) == SignedSquare(a.num, b.den) < SignedSquare(b.num, a.den)

SimGeq(a, b) == ~SimLess(a, b)

SimEq(a, b) == ~SimLess(a, b) /\ ~SimLess(b, a)

RECURSIVE SumTo(_, _)
SumTo(F(_), n) == IF n = 0 THEN 0 ELSE SumTo(F, n - 1) + F(n)

\* The similarity, were the norms not tested for 0.
cosineSimilarityUnguarded(vecA, vecB) ==
  IF ~vecA.defined \/ ~vecB.defined \/ Len(vecA.val) # Len(vecB.val)
  THEN SimZero
  ELSE LET a == vecA.val
           b == vecB.val
           dotProduct == SumTo(LAMBDA i : a[i] * b[i], Len(a))
           normA == SumTo(LAMBDA i : a[i] * a[i], Len(a))
           normB == SumTo(LAMBDA i : b[i] * b[i], Len(a))
       IN  Sim(dotProduct, normA * normB)

cosineSimilarity(vecA, vecB) ==
  IF ~vecA.defined \/ ~vecB.defined \/ Len(vecA.val) # Len(vecB.val)
  THEN SimZero
  ELSE LET a == vecA.val
           b == vecB.val
           dotProduct == SumTo(LAMBDA i : a[i] * b[i], Len(a))
           normA == SumTo(LAMBDA i : a[i] * a[i], Len(a))
           normB == SumTo(LAMBDA i : b[i] * b[i], Len(a))
       IN  IF normA = 0 \/ normB = 0 THEN SimZero
           ELSE Sim(dotProduct, normA * normB)

\* Math.max(...sims)
RECURSIVE MathMaxFrom(_, _, _)
MathMaxFrom(sims, k, best) ==
  IF k > Len(sims) THEN best
  ELSE MathMaxFrom(sims, k + 1, IF SimLess(best, sims[k]) THEN sims[k] ELSE best)

MathMax(sims) == MathMaxFrom(sims, 1, NegInfinity)

(***************************************************************************)
(* Risk tagging: detectRiskyClauses                                        *)
(***************************************************************************)

HIGH == << <<"t", "e", "r", "m", "i", "n", "a", "t", "i", "o", "n">>,
           <<"l", "i", "a", "b", "i", "l", "i", "t", "y">>,
           <<"p", "e", "n", "a", "l", "t", "i", "e", "s">>,
           <<"a", "r", "b", "i", "t", "r", "a", "t", "i", "o", "n">> >>

MED == << <<"f", "e", "e", "s">>,
          <<"r", "e", "n", "e", "w", "a", "l">>,
          <<"d", "a", "t", "a", " ", "s", "h", "a", "r", "i", "n", "g">> >>

LOW == << <<"d", "e", "f", "i", "n", "i", "t", "i", "o", "n", "s">>,
          <<"g", "e", "n", "e", "r", "a", "l", " ", "i", "n", "f", "o", "r", "m", "a", "t", "i", "o", "n">>,
          <<"g", "e", "n", "e", "r", "a", "l", " ", "i", "n", "f", "o">> >>

\* keywords.some(k => t.includes(k))
SomeIncluded(keywords, t) == \E k \in 1..Len(keywords) : Includes(t, keywords[k])

detectRiskyClauses(chunks) ==
  LET Tag(k) ==
        LET c == chunks[k]
            t == ToLowerCase(c.text)
            risk == IF SomeIncluded(HIGH, t) THEN "HIGH"
                    ELSE IF SomeIncluded(MED, t) THEN "MEDIUM"
                    ELSE IF SomeIncluded(LOW, t) THEN "LOW"
                    ELSE "none"
        IN  IF risk = "none" THEN <<>>
            ELSE << [chunkId |-> c.id, text |-> JsSlice(c.text, 0, 400), risk |-> risk] >>
  IN  JsSlice(ConcatMap(Tag, 1, Len(chunks)), 0, 8)

(***************************************************************************)
(* Ranking: the dynamic K and the top-K selection of askQuestion           *)
(***************************************************************************)

\* K, were the upper threshold exclusive: maxSim > 0.8 ? 2 : ...
DynamicKStrict(maxSim) ==
  IF SimLess(Sim(4, 25), maxSim) THEN 2
  ELSE IF SimLess(maxSim, Sim(3, 25)) THEN 6
  ELSE 4

\* const k = maxSim >= 0.8 ? 2 : (maxSim < 0.6 ? 6 : 4)
DynamicK(maxSim) ==
  IF SimGeq(maxSim, Sim(4, 25)) THEN 2
  ELSE IF SimLess(maxSim, Sim(3, 25)) THEN 6
  ELSE 4

\* sims = filteredComputed.map((e) => cosineSimilarity(qvec, e))
Sims(qvec, filteredComputed) ==
  [k \in 1..Len(filteredComputed) |-> cosineSimilarity(Vec(qvec), Vec(filteredComputed[k]))]

\* The selection, were slice(0, k) left out.
TopIdxUnsliced(sims, k) ==
  LET sorted == JsSort(LAMBDA a, b : SimLess(b.s, a.s),
                       [j \in 1..Len(sims) |-> [s |-> sims[j], i |-> j - 1]])
  IN  [j \in 1..Len(sorted) |-> sorted[j].i]

\* The selection, were the comparator to put an equal element first.
TopIdxTiesReversed(sims, k) ==
  LET sorted == JsSort(LAMBDA a, b : ~SimLess(a.s, b.s),
                       [j \in 1..Len(sims) |-> [s |-> sims[j], i |-> j - 1]])
      sliced == JsSlice(sorted, 0, k)
  IN  [j \in 1..Len(sliced) |-> sliced[j].i]

\* sims.map((s, i) => ({ s, i })).sort((a, b) => b.s - a.s).slice(0, k).map((x) => x.i)
\* (indices from 0).
TopIdx(sims, k) ==
  LET sorted == JsSort(LAMBDA a, b : SimLess(b.s, a.s),
                       [j \in 1..Len(sims) |-> [s |-> sims[j], i |-> j - 1]])
      sliced == JsSlice(sorted, 0, k)
  IN  [j \in 1..Len(sliced) |-> sliced[j].i]

\* topChunks = topIdx.map((i) => filtered[i])
TopChunks(topIdx, filtered) == [j \in 1..Len(topIdx) |-> filtered[topIdx[j] + 1]]

\* citations = topChunks.map((c) => ({ chunkId: c.id, snippet: c.text.slice(0, 200) }))
Citations(topChunks) ==
  [j \in 1..Len(topChunks) |->
     [chunkId |-> topChunks[j].id, snippet |-> JsSlice(topChunks[j].text, 0, 200)]]

\* Whether a stored vector must be computed again for a query of length dim:
\* !known || !Array.isArray(known) || known.length !== dim
NeedReembed(known, dim) == ~known.defined \/ Len(known.val) # dim

\* missingIndices of findRelevantChunks (indices from 0)
MissingIndices(knownEmbeddings, dim) ==
  LET Miss(k) == IF NeedReembed(knownEmbeddings[k], dim) THEN << k - 1 >> ELSE <<>>
  IN  ConcatMap(Miss, 1, Len(knownEmbeddings))

(***************************************************************************)
(* The bounded world: documents, chunk records, vectors, requests          *)
(***************************************************************************)

\* The most chunk records of a document in an initial store.
MaxChunks == 3

\* The length of the vectors the embedding capability returns (the requested
\* outputDimensionality, 768 in the source, scaled down).
EmbedDim == 2

\* The chunk records of the one large document of the initial stores.
LargeDocChunks == 7

\* prefilterChunks(question, texts, 60)
PrefilterCap == 60

\* chunkTextByWords(documentText, 900, 120)
TargetWords == 900

OverlapWords == 120

\* A vector of EmbedDim numbers from its first two.
Pad(v) == v \o [i \in 1..(EmbedDim - Len(v)) |-> 0]

\* What the embedding capability may return for a question. Against the
\* first query vector the chunk vectors below have cosine 1, 0.6, 0.707.. and
\* 0, against the second 0.8, 0.96, 0.989.. and 0.6.
QueryVectors == {Pad(<<1, 0>>), Pad(<<4, 3>>)}

\* The vectors stored with chunk records.
DocVectors == {Pad(<<1, 0>>), Pad(<<3, 4>>), Pad(<<1, 1>>), Pad(<<0, 1>>)}

\* What the embedding capability may return for a chunk text now.
FreshVectors == {Pad(<<1, 0>>), Pad(<<0, 1>>)}

\* A stored vector of another dimensionality than the capability returns now.
StaleVector == [i \in 1..(EmbedDim + 1) |-> 1]

TextFees == <<"F", "e", "e", "s", " ", "d", "u", "e">>

TextPlain == <<"x", "y", "z", " ", "q">>

TextBlank == <<" ", "\n">>

TextShort == <<"F", "e", "e", "s", " ", "d", "u", "e", "\n", "x", "y", "z">>

\* "word ".repeat(1000)
WordSpace == <<"w", "o", "r", "d", " ">>

Text1000 == [i \in 1..(5 * 1000) |-> WordSpace[((i - 1) % 5) + 1]]

QuestionFees == <<"f", "e", "e", "s", "?">>

QuestionNoTerms == <<"i", "s", " ", "i", "t">>

DocA == <<"d", "1">>

DocB == <<"d", "2">>

DocIds == {DocA, DocB}

\* The id of the k-th chunk record of a document.
ChunkId(k) == <<"c">> \o Decimal(k)

\* What a chunk record of an initial store may hold.
ChunkKinds ==
  { [text |-> TextFees,  embedding |-> Undefined],
    [text |-> TextPlain, embedding |-> Vec(StaleVector)],
    [text |-> TextPlain, embedding |-> Vec(Pad(<<1, 0>>))],
    [text |-> TextFees,  embedding |-> Vec(Pad(<<3, 4>>))],
    [text |-> TextPlain, embedding |-> Vec(Pad(<<1, 1>>))],
    [text |-> TextFees,  embedding |-> Vec(Pad(<<0, 1>>))] }

\* The chunks sub-collection written for a list of kinds: record k has
\* index k - 1.
ChunkRecords(kinds) ==
  [id \in {ChunkId(k) : k \in 1..Len(kinds)} |->
     LET k == CHOOSE j \in 1..Len(kinds) : ChunkId(j) = id
     IN  [index |-> k - 1, text |-> kinds[k].text, embedding |-> kinds[k].embedding]]

NoChunks == ChunkRecords(<<>>)

LargeDocKinds ==
  { [k \in 1..LargeDocChunks |-> [text |-> TextFees, embedding |-> Vec(Pad(<<0, 1>>))]],
    [k \in 1..LargeDocChunks |->
       IF k % 2 = 1 THEN [text |-> TextPlain, embedding |-> Vec(Pad(<<1, 1>>))]
       ELSE [text |-> TextFees, embedding |-> Undefined]] }

InitialChunkLists ==
  UNION {[1..n -> ChunkKinds] : n \in 0..MaxChunks} \cup LargeDocKinds

\* Where the uploaded file of document d1 lies in Cloud Storage.
FilePathA == <<"d", "o", "c", "u", "m", "e", "n", "t", "s", "/", "d", "1", "/", "f">>

\* A document record: its owner (userId), its file, its extracted text, each
\* of which may be missing.
StoredDoc(owner, path, text) ==
  [userId |-> owner, status |-> "ready", extractedText |-> text, filePath |-> path]

DocRecord(text) == StoredDoc(Some("u1"), Some(FilePathA), text)

(***************************************************************************)
(* State                                                                   *)
(***************************************************************************)

VARIABLES
  docs,            \* documents/{id}: Undefined or Some(record)
  chunkStore,      \* documents/{id}/chunks: chunk id |-> record
  pc,              \* where the askQuestion invocation stands
  req,             \* request.data and request.auth of the invocation
  loc,             \* the local variables of the invocation
  result,          \* what the invocation returned or threw
  embedLog,        \* ids of the chunks an embedding was requested for, in order
  backfilled,      \* ids whose backfill write has committed, over all invocations
  priorBackfilled, \* backfilled, as it was when the invocation began
  cIn,             \* chunker run: the arguments
  cOut,            \* chunker run: the chunks returned
  cLoop,           \* chunker run: the locals of chunkTextByWords, loop by loop
  external,        \* kinds of calls the running invocation has made outside itself
  files,           \* Cloud Storage: the paths that hold an object
  del,             \* the deleteFile invocation: position, request, snapshot, result
  pIn,             \* prefilter run: the arguments
  pOut,            \* prefilter run: the scores and the indices returned
  sIn,             \* similarity run: the two vectors
  sOut,            \* similarity run: the value returned
  ing,             \* the processUploadedDocument invocation: position, event, locals
  chat             \* ChatSessionsProvider: its state, its subscription, the sessions stored

storeVars == <<docs, chunkStore>>

deleteVars == <<files, del>>

pureVars == <<pIn, pOut, sIn, sOut>>

askVars == <<pc, req, loc, result, embedLog, backfilled, priorBackfilled, external>>

chunkerVars == <<cIn, cOut, cLoop>>

ingestVars == <<ing>>

sessionVars == <<chat>>

vars == <<docs, chunkStore, pc, req, loc, result, embedLog, backfilled,
          priorBackfilled, cIn, cOut, cLoop, external, files, del, pIn, pOut, sIn, sOut,
          ing, chat>>

NoRequest ==
  [uid |-> Undefined, question |-> Undefined, documentId |-> Undefined,
   remember |-> FALSE, apiKey |-> FALSE]

NoLocals ==
  [docData |-> Undefined, chunks |-> <<>>, summary |-> "none", filtered |-> <<>>,
   qEmbedding |-> <<>>, i |-> 0, filteredComputed |-> <<>>, toBackfill |-> <<>>,
   backfill |-> "none", sims |-> <<>>, maxSim |-> NegInfinity, k |-> 0,
   topIdx |-> <<>>, topChunks |-> <<>>, answer |-> "", citations |-> <<>>,
   flaggedClauses |-> <<>>, embedFailed |-> "none", similarityArgs |-> <<>>]

Pending == [status |-> "pending"]

\* throw new HttpsError(code, ...)
Thrown(code, what) == [status |-> "error", code |-> code, what |-> what]

StoreInit ==
  \E kinds \in InitialChunkLists :
    \E text \in {Undefined, Some(<<>>), Some(TextBlank), Some(TextShort), Some(Text1000)} :
      \E present \in BOOLEAN :
        /\ kinds # <<>> => text = Some(TextShort)
        /\ ~present => (text = Some(TextShort) /\ Len(kinds) <= 1)
        /\ docs = [d \in DocIds |->
                     IF d = DocA /\ present THEN Some(DocRecord(text)) ELSE Undefined]
        /\ chunkStore = [d \in DocIds |-> IF d = DocA THEN ChunkRecords(kinds) ELSE NoChunks]

AskIdle ==
  /\ pc = "idle"
  /\ req = NoRequest
  /\ loc = NoLocals
  /\ result = Pending
  /\ embedLog = <<>>
  /\ backfilled = {}
  /\ priorBackfilled = {}
  /\ external = {}

\* chunkTextByWords has not been entered.
LoopIdle ==
  [pc |-> "idle", words |-> <<>>, step |-> 0, start |-> 0, end |-> 0, chunks |-> <<>>,
   iterations |-> 0, exit |-> "none"]

ChunkerIdle ==
  /\ cIn = [text |-> <<>>, targetWords |-> 0, overlapWords |-> 0]
  /\ cOut = Undefined
  /\ cLoop = LoopIdle

\* No run of prefilterChunks or cosineSimilarity on its own.
PureIdle ==
  /\ pIn = [question |-> <<>>, chunks |-> <<>>, cap |-> 0]
  /\ pOut = Undefined
  /\ sIn = [vecA |-> Undefined, vecB |-> Undefined]
  /\ sOut = Undefined

\* deleteFile has not been called.
NoDelete ==
  [pc |-> "idle", uid |-> Undefined, documentId |-> Undefined, data |-> Undefined,
   chunksDeleted |-> "none", storageDeleted |-> "none", result |-> Pending]

DeleteIdle ==
  /\ files = {}
  /\ del = NoDelete

\* processUploadedDocument has not been triggered. `allocated` counts the
\* document names that collection('chunks').doc() has handed out.
NoIngest ==
  [pc |-> "idle", event |-> Undefined, extractedText |-> <<>>, chunks |-> <<>>,
   i |-> 0, j |-> 0, sliceEmbeddings |-> Undefined, result |-> Pending,
   marked |-> FALSE, redelivered |-> FALSE, written |-> {}, returned |-> <<>>,
   allocated |-> 0]

IngestIdle == ing = NoIngest

\* ChatSessionsProvider is mounted with nobody signed in.
NoChat ==
  [user |-> Undefined, sessions |-> <<>>, activeSessionId |-> <<>>,
   subscribed |-> FALSE, closureActiveSessionId |-> <<>>, stored |-> <<>>,
   snapshotDue |-> FALSE, created |-> 0, selected |-> <<>>, adding |-> <<>>,
   deleting |-> <<>>, deleteClosureActiveSessionId |-> <<>>]

SessionsIdle == chat = NoChat

Init ==
  StoreInit /\ AskIdle /\ ChunkerIdle /\ PureIdle /\ DeleteIdle /\ IngestIdle /\ SessionsIdle

(***************************************************************************)
(* askQuestion                                                             *)
(***************************************************************************)

\* The order of document names among records of equal index: by character
\* code, shorter first.
AsciiOrder == DigitChars \o UpperLetters \o <<"_">> \o LowerLetters

CharCode(c) == CHOOSE k \in 1..Len(AsciiOrder) : AsciiOrder[k] = c

LexLess(a, b) ==
  \E k \in 1..(Min(Len(a), Len(b)) + 1) :
    /\ \A j \in 1..(k - 1) : a[j] = b[j]
    /\ \/ k > Len(a) /\ k <= Len(b)
       \/ k <= Len(a) /\ k <= Len(b) /\ CharCode(a[k]) < CharCode(b[k])

\* collection('chunks').orderBy('index', 'asc').get(), mapped to the local
\* chunk objects { id, index, text, embedding }.
ChunksSnapshot(records) ==
  LET ids == DOMAIN records
      Before(x, y) ==
        \/ records[x].index < records[y].index
        \/ records[x].index = records[y].index /\ LexLess(x, y)
      At(k) == CHOOSE id \in ids : Cardinality({o \in ids : Before(o, id)}) = k - 1
  IN  [k \in 1..Cardinality(ids) |->
         [id |-> At(k), index |-> records[At(k)].index, text |-> records[At(k)].text,
          embedding |-> records[At(k)].embedding]]

FallbackPrefix == <<"f", "a", "l", "l", "b", "a", "c", "k", "_">>

\* The test, were it never to recognise a fallback id.
NeverFallbackId(cid) == FALSE

\* cid.startsWith('fallback_')
IsFallbackId(cid) == StartsWith(cid, FallbackPrefix)

\* The fallback chunks, were they numbered from 1.
FallbackChunksFromOne(documentText) ==
  LET fallback == chunkTextByWords(documentText, TargetWords, OverlapWords)
  IN  [k \in 1..Len(fallback) |->
         [id |-> FallbackPrefix \o Decimal(k), index |-> k, text |-> fallback[k],
          embedding |-> Undefined]]

\* chunkTextByWords(documentText, 900, 120).map((t, i) => ({ id: `fallback_${i}`, index: i, text: t }))
FallbackChunks(documentText) ==
  LET fallback == chunkTextByWords(documentText, TargetWords, OverlapWords)
  IN  [k \in 1..Len(fallback) |->
         [id |-> FallbackPrefix \o Decimal(k - 1), index |-> k - 1, text |-> fallback[k],
          embedding |-> Undefined]]

\* !s || !s.trim() for an optional string
Blank(s) == ~s.defined \/ Trim(s.val) = <<>>

\* filtered = prefilterChunks(question, chunks.map((c) => c.text), 60).map((i) => chunks[i])
Filtered(question, chunks) ==
  LET prefilteredIdx ==
        prefilterChunks(question, [k \in 1..Len(chunks) |-> chunks[k].text], PrefilterCap)
  IN  [k \in 1..Len(prefilteredIdx) |-> chunks[prefilteredIdx[k] + 1]]

\* The iterations of the re-embed loop that need no request: the stored
\* vector is pushed as it is.
RECURSIVE SkipKnown(_)
SkipKnown(l) ==
  IF l.i < Len(l.filtered)
     /\ ~NeedReembed(l.filtered[l.i + 1].embedding, Len(l.qEmbedding))
  THEN SkipKnown([l EXCEPT !.i = @ + 1,
                           !.filteredComputed = Append(@, l.filtered[l.i + 1].embedding.val)])
  ELSE l

\* Where the invocation waits next once the loop stands at l.i: for the
\* embedding of chunk l.i, for the backfill commit, or for the answer.
AwaitAfterLoop(l) ==
  IF l.i < Len(l.filtered) THEN "reembed"
  ELSE IF Len(l.toBackfill) > 0 THEN "backfill"
  ELSE "generate"

\* The lengths of the two arguments of each call cosineSimilarity(qvec, e) of
\* a map over `embeddings`.
SimilarityArgs(qvec, embeddings) ==
  [k \in 1..Len(embeddings) |-> [vecA |-> Len(qvec), vecB |-> Len(embeddings[k])]]

\* `embeddings` of findRelevantChunks (lines 339-342): the stored vector when
\* there is one, of whatever length, else the one of the batch. computed is
\* what the capability returns for any text now.
FindRelevantEmbeddings(knownEmbeddings, computed) ==
  [k \in 1..Len(knownEmbeddings) |->
     IF knownEmbeddings[k].defined THEN knownEmbeddings[k].val ELSE computed]

\* Lines 168-175, run once nothing is left to embed or to write back.
Ranked(l) ==
  LET sims   == Sims(l.qEmbedding, l.filteredComputed)
      maxSim == MathMax(sims)
      k      == DynamicK(maxSim)
      topIdx == TopIdx(sims, k)
  IN  [l EXCEPT !.sims = sims, !.maxSim = maxSim, !.k = k, !.topIdx = topIdx,
                !.topChunks = TopChunks(topIdx, l.filtered),
                !.similarityArgs = @ \o SimilarityArgs(l.qEmbedding, l.filteredComputed)]

LocalsAfterLoop(l) == IF AwaitAfterLoop(l) = "generate" THEN Ranked(l) ELSE l

\* The invocation ends: normally, or with an HttpsError.
Finish(r) ==
  /\ pc' = "done"
  /\ result' = r

\* Lines 23-48: authentication, arguments, API key.
AskBegin(uid, question, documentId, remember, apiKey) ==
  /\ pc = "idle"
  /\ req' = [uid |-> uid, question |-> question, documentId |-> documentId,
             remember |-> remember, apiKey |-> apiKey]
  /\ priorBackfilled' = backfilled
  /\ IF ~uid.defined THEN Finish(Thrown("unauthenticated", "sign-in"))
     ELSE IF Blank(question) THEN Finish(Thrown("invalid-argument", "question"))
     ELSE IF Blank(documentId) THEN Finish(Thrown("invalid-argument", "documentId"))
     ELSE IF ~apiKey THEN Finish(Thrown("failed-precondition", "api-key"))
     ELSE pc' = "loadDoc" /\ result' = Pending
  /\ external' = {}
  /\ UNCHANGED <<storeVars, loc, embedLog, backfilled, chunkerVars, deleteVars, pureVars, ingestVars, sessionVars>>

\* The response (or the error) has gone to the caller; the function instance
\* is free for the next invocation.
Respond ==
  /\ pc = "done"
  /\ pc' = "idle"
  /\ req' = NoRequest
  /\ loc' = NoLocals
  /\ result' = Pending
  /\ embedLog' = <<>>
  /\ external' = {}
  /\ UNCHANGED <<storeVars, backfilled, priorBackfilled, chunkerVars, deleteVars, pureVars, ingestVars, sessionVars>>

\* Lines 57-64
LoadDoc ==
  /\ pc = "loadDoc"
  /\ LET doc == docs[req.documentId.val]
     IN  IF ~doc.defined
         THEN Finish(Thrown("not-found", "document")) /\ UNCHANGED loc
         ELSE /\ pc' = "loadChunks"
              /\ loc' = [loc EXCEPT !.docData = doc.val.extractedText]
              /\ UNCHANGED result
  /\ external' = external \cup {"store.read"}
  /\ UNCHANGED <<storeVars, req, embedLog, backfilled, priorBackfilled, chunkerVars, deleteVars, pureVars, ingestVars, sessionVars>>

\* Lines 68-88, and on to the next call awaited: the session's messages when
\* remember is set (line 95), else the embedding of the question in
\* findRelevantChunks (lines 120-124, 309).
LoadChunks ==
  /\ pc = "loadChunks"
  /\ LET snap == ChunksSnapshot(chunkStore[req.documentId.val])
         documentText == IF loc.docData.defined THEN loc.docData.val ELSE <<>>
         chunks == IF Len(snap) > 0 THEN snap ELSE FallbackChunks(documentText)
     IN  IF Len(snap) = 0 /\ Trim(documentText) = <<>>
         THEN Finish(Thrown("failed-precondition", "not-ready")) /\ UNCHANGED loc
         ELSE /\ pc' = IF req.remember THEN "memory" ELSE "findRelevant"
              /\ loc' = [loc EXCEPT !.chunks = chunks,
                                    !.filtered = IF req.remember THEN @
                                                 ELSE Filtered(req.question.val, chunks)]
              /\ UNCHANGED result
  /\ external' = external \cup {"store.read"}
  /\ UNCHANGED <<storeVars, req, embedLog, backfilled, priorBackfilled, chunkerVars, deleteVars, pureVars, ingestVars, sessionVars>>

\* Lines 93-117: the recent turns are read; more than 6 turns are summarised
\* by the generation capability, whose failure is caught.
Memory(turns, summarised) ==
  /\ pc = "memory"
  /\ pc' = "findRelevant"
  /\ loc' = [loc EXCEPT !.summary = IF turns > 6 THEN (IF summarised THEN "ok" ELSE "failed")
                                    ELSE "none",
                        !.filtered = Filtered(req.question.val, loc.chunks)]
  /\ external' = external \cup {"store.read"} \cup (IF turns > 6 THEN {"generate"} ELSE {})
  /\ UNCHANGED <<storeVars, req, result, embedLog, backfilled, priorBackfilled, chunkerVars, deleteVars, pureVars, ingestVars, sessionVars>>

\* findRelevantChunks (lines 299-357): the question is embedded, then the
\* candidates without a stored vector of that length in one batch, and every
\* candidate's vector is compared with the question's (line 346). The
\* vectors returned have EmbedDim numbers. The return value is dropped by
\* askQuestion (line 124); a failed request is not caught.
FindRelevant(questionOk, batchOk) ==
  /\ pc = "findRelevant"
  /\ LET known == [k \in 1..Len(loc.filtered) |-> loc.filtered[k].embedding]
         missingIndices == MissingIndices(known, EmbedDim)
         requested == [k \in 1..Len(missingIndices) |-> loc.filtered[missingIndices[k] + 1].id]
     IN  \/ /\ ~questionOk
            /\ Finish(Thrown("internal", "embedding"))
            /\ loc' = [loc EXCEPT !.embedFailed = "question"]
            /\ UNCHANGED embedLog
         \/ /\ questionOk /\ ~batchOk /\ Len(missingIndices) > 0
            /\ Finish(Thrown("internal", "embedding"))
            /\ loc' = [loc EXCEPT !.embedFailed = "batch"]
            /\ embedLog' = embedLog \o requested
         \/ /\ questionOk /\ (batchOk \/ Len(missingIndices) = 0)
            /\ pc' = "qEmbed"
            /\ embedLog' = embedLog \o requested
            /\ loc' = [loc EXCEPT !.similarityArgs =
                         SimilarityArgs(Pad(<<1>>), FindRelevantEmbeddings(known, Pad(<<1>>)))]
            /\ UNCHANGED result
  /\ external' = external \cup {"embed"}
  /\ UNCHANGED <<storeVars, req, backfilled, priorBackfilled, chunkerVars, deleteVars, pureVars, ingestVars, sessionVars>>

\* Lines 127-142: the question is embedded again; the loop then runs up to
\* its first request.
QEmbed(ok, values) ==
  /\ pc = "qEmbed"
  /\ \/ /\ ~ok
        /\ Finish(Thrown("internal", "embedding"))
        /\ loc' = [loc EXCEPT !.embedFailed = "question"]
     \/ /\ ok
        /\ LET l == SkipKnown([loc EXCEPT !.qEmbedding = values])
           IN  pc' = AwaitAfterLoop(l) /\ loc' = LocalsAfterLoop(l)
        /\ UNCHANGED result
  /\ external' = external \cup {"embed"}
  /\ UNCHANGED <<storeVars, req, embedLog, backfilled, priorBackfilled, chunkerVars, deleteVars, pureVars, ingestVars, sessionVars>>

\* Lines 143-155: the embedding of candidate loc.i arrives (or the request
\* fails, uncaught); the loop runs on to its next request.
Reembed(ok, vals) ==
  /\ pc = "reembed"
  /\ LET cid == loc.filtered[loc.i + 1].id
     IN  /\ embedLog' = Append(embedLog, cid)
         /\ \/ /\ ~ok
               /\ Finish(Thrown("internal", "embedding"))
               /\ loc' = [loc EXCEPT !.embedFailed = "chunk"]
            \/ /\ ok
               /\ LET l == SkipKnown(
                             [loc EXCEPT !.i = @ + 1,
                                         !.filteredComputed = Append(@, vals),
                                         !.toBackfill =
                                            IF ~IsFallbackId(cid)
                                            THEN Append(@, [id |-> cid, values |-> vals])
                                            ELSE @])
                  IN  pc' = AwaitAfterLoop(l) /\ loc' = LocalsAfterLoop(l)
               /\ UNCHANGED result
  /\ external' = external \cup {"embed"}
  /\ UNCHANGED <<storeVars, req, backfilled, priorBackfilled, chunkerVars, deleteVars, pureVars, ingestVars, sessionVars>>

\* The batch, were it committed with no update in it.
BackfillWritesNothing(records, toBackfill) == records

\* The batch, were it to write whole records (batch.set) with the text left
\* out.
BackfillWritesWholeRecords(records, toBackfill) ==
  [id \in DOMAIN records |->
     IF \E k \in 1..Len(toBackfill) : toBackfill[k].id = id
     THEN [index |-> records[id].index, text |-> <<>>,
           embedding |-> Vec(toBackfill[CHOOSE k \in 1..Len(toBackfill) :
                                         toBackfill[k].id = id].values)]
     ELSE records[id]]

\* batch.update(cref, { embedding }) for every item, committed at once: the
\* commit fails when a record is gone.
BackfillWrites(records, toBackfill) ==
  [id \in DOMAIN records |->
     IF \E k \in 1..Len(toBackfill) : toBackfill[k].id = id
     THEN [records[id] EXCEPT !.embedding =
             Vec(toBackfill[CHOOSE k \in 1..Len(toBackfill) :
                              /\ toBackfill[k].id = id
                              /\ \A j \in (k + 1)..Len(toBackfill) : toBackfill[j].id # id].values)]
     ELSE records[id]]

\* The backfill, were the failure of the commit not caught.
BackfillUncaught(committed) ==
  /\ pc = "backfill"
  /\ LET d == req.documentId.val
         ids == {loc.toBackfill[k].id : k \in 1..Len(loc.toBackfill)}
     IN  \/ /\ committed
            /\ ids \subseteq DOMAIN chunkStore[d]
            /\ chunkStore' = [chunkStore EXCEPT ![d] = BackfillWrites(@, loc.toBackfill)]
            /\ backfilled' = backfilled \cup ids
            /\ loc' = Ranked([loc EXCEPT !.backfill = "committed"])
            /\ pc' = "generate"
            /\ UNCHANGED result
         \/ /\ ~committed
            /\ loc' = [loc EXCEPT !.backfill = "failed"]
            /\ Finish(Thrown("internal", "backfill"))
            /\ UNCHANGED <<chunkStore, backfilled>>
  /\ external' = external \cup {"store.write"}
  /\ UNCHANGED <<docs, req, embedLog, priorBackfilled, chunkerVars, deleteVars, pureVars, ingestVars, sessionVars>>

\* Lines 156-175: the backfill batch commits or fails (caught); ranking
\* follows either way.
Backfill(committed) ==
  /\ pc = "backfill"
  /\ LET d == req.documentId.val
         ids == {loc.toBackfill[k].id : k \in 1..Len(loc.toBackfill)}
     IN  \/ /\ committed
            /\ ids \subseteq DOMAIN chunkStore[d]
            /\ chunkStore' = [chunkStore EXCEPT ![d] = BackfillWrites(@, loc.toBackfill)]
            /\ backfilled' = backfilled \cup ids
            /\ loc' = Ranked([loc EXCEPT !.backfill = "committed"])
         \/ /\ ~committed
            /\ loc' = Ranked([loc EXCEPT !.backfill = "failed"])
            /\ UNCHANGED <<chunkStore, backfilled>>
  /\ pc' = "generate"
  /\ external' = external \cup {"store.write"}
  /\ UNCHANGED <<docs, req, result, embedLog, priorBackfilled, chunkerVars, deleteVars, pureVars, ingestVars, sessionVars>>

\* Lines 178-190: the answer is generated (a failure is not caught), then
\* citations and flagged clauses are derived from the top chunks.
Generate(ok) ==
  /\ pc = "generate"
  /\ \/ /\ ~ok
        /\ Finish(Thrown("internal", "generation"))
        /\ UNCHANGED loc
     \/ /\ ok
        /\ pc' = "followUps"
        /\ loc' = [loc EXCEPT !.answer = "answer",
                              !.citations = Citations(loc.topChunks),
                              !.flaggedClauses = detectRiskyClauses(loc.topChunks)]
        /\ UNCHANGED result
  /\ external' = external \cup {"generate"}
  /\ UNCHANGED <<storeVars, req, embedLog, backfilled, priorBackfilled, chunkerVars, deleteVars, pureVars, ingestVars, sessionVars>>

\* The follow-up questions, were a failure of their generation not caught.
FollowUpsUncaught(ok) ==
  /\ pc = "followUps"
  /\ IF ok
     THEN Finish([status |-> "ok", answer |-> loc.answer, citations |-> loc.citations,
                  flaggedClauses |-> loc.flaggedClauses,
                  followUps |-> <<"follow-up 1", "follow-up 2">>,
                  topChunkIds |-> [k \in 1..Len(loc.topChunks) |-> loc.topChunks[k].id]])
     ELSE Finish(Thrown("internal", "follow-ups"))
  /\ external' = external \cup {"generate"}
  /\ UNCHANGED <<storeVars, req, loc, embedLog, backfilled, priorBackfilled, chunkerVars, deleteVars, pureVars, ingestVars, sessionVars>>

\* Lines 193-213: the follow-up questions (a failure leaves them empty), and
\* the return value.
FollowUps(ok) ==
  /\ pc = "followUps"
  /\ Finish([status |-> "ok", answer |-> loc.answer, citations |-> loc.citations,
             flaggedClauses |-> loc.flaggedClauses,
             followUps |-> IF ok THEN <<"follow-up 1", "follow-up 2">> ELSE <<>>,
             topChunkIds |-> [k \in 1..Len(loc.topChunks) |-> loc.topChunks[k].id]])
  /\ external' = external \cup {"generate"}
  /\ UNCHANGED <<storeVars, req, loc, embedLog, backfilled, priorBackfilled, chunkerVars, deleteVars, pureVars, ingestVars, sessionVars>>

Questions == {Undefined, Some(TextBlank), Some(QuestionFees), Some(QuestionNoTerms)}

DocumentIds == {Undefined, Some(<<" ">>), Some(DocA), Some(DocB)}

\* The calls made: every well-formed one, and the ill-formed ones that lack
\* one thing, or everything.
Calls ==
  LET all == [uid : {Undefined, Some("u1")}, question : Questions,
              documentId : DocumentIds, apiKey : BOOLEAN]
      Faults(c) == (IF c.uid.defined THEN 0 ELSE 1) + (IF Blank(c.question) THEN 1 ELSE 0)
                   + (IF Blank(c.documentId) THEN 1 ELSE 0) + (IF c.apiKey THEN 0 ELSE 1)
  IN  {c \in all : Faults(c) \in {0, 1, 4}}

AskSteps ==
  \/ LoadDoc
  \/ LoadChunks
  \/ \E questionOk \in BOOLEAN, batchOk \in BOOLEAN : FindRelevant(questionOk, batchOk)
  \/ \E ok \in BOOLEAN, values \in QueryVectors : QEmbed(ok, values)
  \/ \E ok \in BOOLEAN, vals \in FreshVectors : Reembed(ok, vals)
  \/ \E committed \in BOOLEAN : Backfill(committed)
  \/ \E ok \in BOOLEAN : Generate(ok)
  \/ \E ok \in BOOLEAN : FollowUps(ok)
  \/ Respond

\* Calls that do not ask for conversation memory.
Next ==
  \/ \E c \in Calls : AskBegin(c.uid, c.question, c.documentId, FALSE, c.apiKey)
  \/ AskSteps

Spec == Init /\ [][Next]_vars

(***************************************************************************)
(* Calls that ask for conversation memory, on one stored document          *)
(***************************************************************************)

MemoryInit ==
  /\ docs = [d \in DocIds |-> IF d = DocA THEN Some(DocRecord(Some(TextShort))) ELSE Undefined]
  /\ \E kinds \in [1..2 -> ChunkKinds] :
       chunkStore = [d \in DocIds |-> IF d = DocA THEN ChunkRecords(kinds) ELSE NoChunks]
  /\ AskIdle
  /\ IngestIdle
  /\ SessionsIdle
  /\ ChunkerIdle
  /\ PureIdle
  /\ DeleteIdle

MemoryNext ==
  \/ \E question \in {Some(QuestionFees), Some(QuestionNoTerms)}, remember \in BOOLEAN :
       AskBegin(Some("u1"), question, Some(DocA), remember, TRUE)
  \/ \E turns \in {0, 7}, summarised \in BOOLEAN : Memory(turns, summarised)
  \/ AskSteps

SpecMemory == MemoryInit /\ [][MemoryNext]_vars

(***************************************************************************)
(* Runs of the chunker on its own                                          *)
(***************************************************************************)

\* The longest text, in characters, and the largest parameters of a run.
MaxTextLen == 6

MaxTarget == 3

MaxOverlap == 2

ChunkerAlphabet == {" ", "a", "b"}

ChunkerInputs ==
  [text : UNION {[1..n -> ChunkerAlphabet] : n \in 0..MaxTextLen}
          \cup {TextBlank, TextShort, <<"\t", "a", "\r", "\n", "b", "\f">>,
                <<"a", " ", "b", " ", "c", " ", "d", " ", "e">>,
                <<"a", " ", "a", "\n", "\n", "b", " ", "a", " ", "a", " ", "b", " ">>},
   targetWords : (-1)..MaxTarget,
   overlapWords : (-1)..MaxOverlap]
  \cup {[text |-> Text1000, targetWords |-> TargetWords, overlapWords |-> OverlapWords]}

ChunkerInit ==
  /\ docs = [d \in DocIds |-> Undefined]
  /\ chunkStore = [d \in DocIds |-> NoChunks]
  /\ AskIdle
  /\ IngestIdle
  /\ SessionsIdle
  /\ cIn \in ChunkerInputs
  /\ cOut = Undefined
  /\ cLoop = LoopIdle
  /\ PureIdle
  /\ DeleteIdle

ChunkerRun ==
  /\ ~cOut.defined
  /\ cOut' = Some(chunkTextByWords(cIn.text, cIn.targetWords, cIn.overlapWords))
  /\ UNCHANGED <<storeVars, askVars, deleteVars, pureVars, cIn, cLoop, ingestVars, sessionVars>>

SpecChunker == ChunkerInit /\ [][ChunkerRun]_vars

(***************************************************************************)
(* Runs of the chunker, one loop iteration at a time                       *)
(***************************************************************************)

\* The longest text, in characters, of a run followed loop by loop.
MaxLoopTextLen == 7

ChunkLoopInputs ==
  [text : UNION {[1..n -> {" ", "a"}] : n \in 0..MaxLoopTextLen}
          \cup {<<"a", " ", "b", " ", "c", " ", "d", " ", "e">>},
   targetWords : (-1)..MaxTarget,
   overlapWords : (-1)..MaxOverlap]

ChunkLoopInit ==
  /\ docs = [d \in DocIds |-> Undefined]
  /\ chunkStore = [d \in DocIds |-> NoChunks]
  /\ AskIdle
  /\ IngestIdle
  /\ SessionsIdle
  /\ cIn \in ChunkLoopInputs
  /\ cOut = Undefined
  /\ cLoop = LoopIdle
  /\ PureIdle
  /\ DeleteIdle

\* return chunks
LoopReturn(l, exit) == [l EXCEPT !.pc = "returned", !.exit = exit]

\* The call, were the step not kept at 1 or more.
ChunkCallStepUnclamped ==
  /\ cLoop.pc = "idle"
  /\ LET words == FilterBoolean(SplitWhitespace(cIn.text))
         step  == cIn.targetWords - Max(0, cIn.overlapWords)
     IN  IF cIn.text = <<>> THEN cLoop' = LoopReturn(cLoop, "empty-text")
         ELSE IF Len(words) = 0
         THEN cLoop' = LoopReturn([cLoop EXCEPT !.words = words], "no-words")
         ELSE cLoop' = [cLoop EXCEPT !.pc = "loop", !.words = words, !.step = step]
  /\ cOut' = IF cLoop'.pc = "returned" THEN Some(cLoop'.chunks) ELSE cOut
  /\ UNCHANGED <<storeVars, askVars, deleteVars, pureVars, cIn, ingestVars, sessionVars>>

\* Lines 276-280: the early returns, the words, the step, start = 0.
ChunkCall ==
  /\ cLoop.pc = "idle"
  /\ LET words == FilterBoolean(SplitWhitespace(cIn.text))
         step  == Max(1, cIn.targetWords - Max(0, cIn.overlapWords))
     IN  IF cIn.text = <<>> THEN cLoop' = LoopReturn(cLoop, "empty-text")
         ELSE IF Len(words) = 0
         THEN cLoop' = LoopReturn([cLoop EXCEPT !.words = words], "no-words")
         ELSE cLoop' = [cLoop EXCEPT !.pc = "loop", !.words = words, !.step = step]
  /\ cOut' = IF cLoop'.pc = "returned" THEN Some(cLoop'.chunks) ELSE cOut
  /\ UNCHANGED <<storeVars, askVars, deleteVars, pureVars, cIn, ingestVars, sessionVars>>

\* Lines 280-286: the loop test and, when it passes, one run of the body:
\* the window is pushed unless blank, then the loop breaks or start advances.
ChunkIterate ==
  /\ cLoop.pc = "loop"
  /\ IF ~(cLoop.start < Len(cLoop.words))
     THEN cLoop' = LoopReturn(cLoop, "condition")
     ELSE LET end    == Min(Len(cLoop.words), cLoop.start + cIn.targetWords)
              slice  == Join(JsSlice(cLoop.words, cLoop.start, end), <<" ">>)
              pushed == IF Trim(slice) # <<>> THEN Append(cLoop.chunks, slice)
                        ELSE cLoop.chunks
              ran    == [cLoop EXCEPT !.end = end, !.chunks = pushed, !.iterations = @ + 1]
          IN  IF end = Len(cLoop.words)
              THEN cLoop' = LoopReturn(ran, "break")
              ELSE cLoop' = [ran EXCEPT !.start = @ + cLoop.step]
  /\ cOut' = IF cLoop'.pc = "returned" THEN Some(cLoop'.chunks) ELSE cOut
  /\ UNCHANGED <<storeVars, askVars, deleteVars, pureVars, cIn, ingestVars, sessionVars>>

ChunkLoopNext == ChunkCall \/ ChunkIterate

\* A call that has begun runs on: nothing but the loop keeps it from
\* returning.
SpecChunkLoop == ChunkLoopInit /\ [][ChunkLoopNext]_vars /\ WF_vars(ChunkLoopNext)

(***************************************************************************)
(* deleteFile                                                              *)
(***************************************************************************)

\* docRef.get(): the record of a document, Undefined when there is none.
DocAt(documentId) == IF documentId \in DOMAIN docs THEN docs[documentId] ELSE Undefined

\* docRef.collection('chunks').get(): the chunk records of a document.
ChunksAt(documentId) ==
  IF documentId \in DOMAIN chunkStore THEN chunkStore[documentId] ELSE NoChunks

\* Records whose ids are in `ids` deleted.
Without(records, ids) == [id \in (DOMAIN records) \ ids |-> records[id]]

\* deleteFile ends: with { success: true }, or with an error.
DeleteFinish(r) == del' = [del EXCEPT !.pc = "done", !.result = r]

\* Lines 232-235: the caller must be signed in and documentId must not be
\* missing or empty.
DeleteBegin(uid, documentId) ==
  /\ pc = "idle"
  /\ del.pc = "idle"
  /\ external' = {}
  /\ IF ~uid.defined
     THEN del' = [NoDelete EXCEPT !.pc = "done", !.uid = uid, !.documentId = documentId,
                                  !.result = Thrown("unauthenticated", "sign-in")]
     ELSE IF ~documentId.defined \/ documentId.val = <<>>
     THEN del' = [NoDelete EXCEPT !.pc = "done", !.uid = uid, !.documentId = documentId,
                                  !.result = Thrown("invalid-argument", "documentId")]
     ELSE del' = [NoDelete EXCEPT !.pc = "get", !.uid = uid, !.documentId = documentId]
  /\ UNCHANGED <<storeVars, files, pc, req, loc, result, embedLog, backfilled,
                 priorBackfilled, chunkerVars, pureVars, ingestVars, sessionVars>>

\* Lines 237-245: the record is read; a record with a userId other than the
\* caller's is refused; the path of the file is taken from the record.
DeleteGet ==
  /\ del.pc = "get"
  /\ external' = external \cup {"store.read"}
  /\ LET snap == DocAt(del.documentId.val)
     IN  IF ~snap.defined THEN DeleteFinish(Thrown("not-found", "document"))
         ELSE IF snap.val.userId.defined /\ snap.val.userId # del.uid
         THEN DeleteFinish(Thrown("permission-denied", "owner"))
         ELSE del' = [del EXCEPT !.data = snap,
                                 !.pc = IF snap.val.filePath.defined THEN "storage"
                                        ELSE "chunksGet"]
  /\ UNCHANGED <<storeVars, files, pc, req, loc, result, embedLog, backfilled,
                 priorBackfilled, chunkerVars, pureVars, ingestVars, sessionVars>>

\* Lines 246-253: the file is deleted (a missing file is no error); a failure
\* is caught.
DeleteStorage(ok) ==
  /\ del.pc = "storage"
  /\ external' = external \cup {"storage.delete"}
  /\ files' = IF ok THEN files \ {del.data.val.filePath.val} ELSE files
  /\ del' = [del EXCEPT !.pc = "chunksGet",
                        !.storageDeleted = IF ok THEN "deleted" ELSE "failed"]
  /\ UNCHANGED <<storeVars, pc, req, loc, result, embedLog, backfilled,
                 priorBackfilled, chunkerVars, pureVars, ingestVars, sessionVars>>

\* Lines 255-266: the chunk records are read and deleted in one batch; a
\* failure of the read or of the commit is caught and nothing is deleted.
DeleteChunks(ok) ==
  /\ del.pc = "chunksGet"
  /\ LET d   == del.documentId.val
         ids == DOMAIN ChunksAt(d)
     IN  /\ external' = external \cup {"store.read"}
                        \cup (IF ok /\ ids # {} THEN {"store.write"} ELSE {})
         /\ chunkStore' = IF ok /\ ids # {} THEN [chunkStore EXCEPT ![d] = Without(@, ids)]
                          ELSE chunkStore
         /\ del' = [del EXCEPT !.pc = "docDelete",
                               !.chunksDeleted = IF ok THEN "deleted" ELSE "failed"]
  /\ UNCHANGED <<docs, files, pc, req, loc, result, embedLog, backfilled,
                 priorBackfilled, chunkerVars, pureVars, ingestVars, sessionVars>>

\* Lines 268-269: the record is deleted and success returned; a failure of
\* the delete is thrown on.
DeleteDoc(ok) ==
  /\ del.pc = "docDelete"
  /\ external' = external \cup {"store.write"}
  /\ IF ok
     THEN /\ docs' = [docs EXCEPT ![del.documentId.val] = Undefined]
          /\ DeleteFinish([status |-> "ok", success |-> TRUE])
     ELSE /\ DeleteFinish(Thrown("internal", "delete"))
          /\ UNCHANGED docs
  /\ UNCHANGED <<chunkStore, files, pc, req, loc, result, embedLog, backfilled,
                 priorBackfilled, chunkerVars, pureVars, ingestVars, sessionVars>>

\* The response has gone to the caller.
DeleteRespond ==
  /\ del.pc = "done"
  /\ del' = NoDelete
  /\ external' = {}
  /\ UNCHANGED <<storeVars, files, pc, req, loc, result, embedLog, backfilled,
                 priorBackfilled, chunkerVars, pureVars, ingestVars, sessionVars>>

\* The most chunk records of a document that deleteFile is called on.
MaxDeleteChunks == 2

DeleteChunkKinds ==
  { [text |-> TextFees, embedding |-> Undefined],
    [text |-> TextPlain, embedding |-> Vec(Pad(<<1, 0>>))] }

\* Document d1 is absent, or present with or without an owner and a file,
\* its file in Cloud Storage or not, and with some chunk records.
DeleteInit ==
  /\ \E present \in BOOLEAN :
       \E owner \in {Undefined, Some("u1"), Some("u2")}, path \in {Undefined, Some(FilePathA)} :
         \E kinds \in UNION {[1..n -> DeleteChunkKinds] : n \in 0..MaxDeleteChunks} :
           \E stored \in BOOLEAN :
             /\ ~present => (owner = Undefined /\ path = Undefined /\ kinds = <<>> /\ ~stored)
             /\ stored => path.defined
             /\ docs = [d \in DocIds |->
                          IF d = DocA /\ present
                          THEN Some(StoredDoc(owner, path, Some(TextShort)))
                          ELSE Undefined]
             /\ chunkStore = [d \in DocIds |->
                                IF d = DocA THEN ChunkRecords(kinds) ELSE NoChunks]
             /\ files = IF stored THEN {FilePathA} ELSE {}
  /\ del = NoDelete
  /\ AskIdle
  /\ IngestIdle
  /\ SessionsIdle
  /\ ChunkerIdle
  /\ PureIdle

Callers == {Undefined, Some("u1"), Some("u2")}

DeleteDocumentIds == {Undefined, Some(<<>>), Some(<<" ">>), Some(DocA), Some(DocB)}

\* The calls of the two functions, one invocation at a time.
DeleteNext ==
  \/ \E uid \in Callers, documentId \in DeleteDocumentIds : DeleteBegin(uid, documentId)
  \/ DeleteGet
  \/ \E ok \in BOOLEAN : DeleteStorage(ok)
  \/ \E ok \in BOOLEAN : DeleteChunks(ok)
  \/ \E ok \in BOOLEAN : DeleteDoc(ok)
  \/ DeleteRespond
  \/ del.pc = "idle" /\ \E c \in Calls : AskBegin(c.uid, c.question, c.documentId, FALSE, c.apiKey)
  \/ AskSteps

SpecDelete == DeleteInit /\ [][DeleteNext]_vars

(***************************************************************************)
(* Runs of prefilterChunks on its own                                      *)
(***************************************************************************)

\* The most chunks of a run, and the largest cap.
MaxPrefilterChunks == 3

MaxCap == 4

QuestionRepeats == <<"f", "e", "e", "s", " ", "F", "E", "E", "S", " ", "f", "e", "e", "s", " ", "x", "y", "z", " ", "d", "u", "e">>

TextDue == <<"d", "u", "e", " ", "x", "y", "z">>

PrefilterInputs ==
  [question : {<<>>, QuestionNoTerms, QuestionFees, QuestionRepeats,
               <<"r", "e", "n", "e", "w", "a", "l">>},
   chunks : UNION {[1..n -> {TextFees, TextPlain, TextDue, <<>>}] : n \in 0..MaxPrefilterChunks},
   cap : (-2)..MaxCap]

PrefilterInit ==
  /\ docs = [d \in DocIds |-> Undefined]
  /\ chunkStore = [d \in DocIds |-> NoChunks]
  /\ AskIdle
  /\ IngestIdle
  /\ SessionsIdle
  /\ ChunkerIdle
  /\ DeleteIdle
  /\ pIn \in PrefilterInputs
  /\ pOut = Undefined
  /\ sIn = [vecA |-> Undefined, vecB |-> Undefined]
  /\ sOut = Undefined

\* The run: the indices returned, with the score given to each chunk (the
\* local `scored` before it is sorted).
PrefilterRun ==
  /\ ~pOut.defined
  /\ pOut' = Some([indices |-> prefilterChunks(pIn.question, pIn.chunks, pIn.cap),
                   scores  |-> [k \in 1..Len(pIn.chunks) |->
                                  TermScore(QueryTerms(pIn.question), pIn.chunks[k])]])
  /\ UNCHANGED <<storeVars, askVars, chunkerVars, deleteVars, pIn, sIn, sOut, ingestVars, sessionVars>>

SpecPrefilter == PrefilterInit /\ [][PrefilterRun]_vars

(***************************************************************************)
(* Runs of cosineSimilarity on its own                                     *)
(***************************************************************************)

\* The longest vector of a run, and its largest coordinate.
MaxVecLen == 2

MaxCoord == 1

SimilarityVectors ==
  {Undefined} \cup {Some(v) : v \in UNION {[1..n -> (0 - MaxCoord)..MaxCoord] : n \in 0..MaxVecLen}}

SimilarityInit ==
  /\ docs = [d \in DocIds |-> Undefined]
  /\ chunkStore = [d \in DocIds |-> NoChunks]
  /\ AskIdle
  /\ IngestIdle
  /\ SessionsIdle
  /\ ChunkerIdle
  /\ DeleteIdle
  /\ pIn = [question |-> <<>>, chunks |-> <<>>, cap |-> 0]
  /\ pOut = Undefined
  /\ sIn \in [vecA : SimilarityVectors, vecB : SimilarityVectors]
  /\ sOut = Undefined

SimilarityRun ==
  /\ ~sOut.defined
  /\ sOut' = Some(cosineSimilarity(sIn.vecA, sIn.vecB))
  /\ UNCHANGED <<storeVars, askVars, chunkerVars, deleteVars, pIn, pOut, sIn, ingestVars, sessionVars>>

SpecSimilarity == SimilarityInit /\ [][SimilarityRun]_vars

(***************************************************************************)
(* processUploadedDocument (processUpload.ts)                              *)
(***************************************************************************)

\* batchSize (400 in the source) and embedBatchSize (100), scaled down.
IngestBatchSize == 2

IngestEmbedBatchSize == 1

\* chunkTextByWords(extractedText, 900, 120), scaled down with the batches.
IngestTargetWords == 2

IngestOverlapWords == 1

\* A text of one-letter words, all different, that gives one chunk more than
\* a write batch holds.
IngestLongText ==
  LET step == Max(1, IngestTargetWords - Max(0, IngestOverlapWords))
      n    == IngestTargetWords + IngestBatchSize * step
  IN  Join([k \in 1..n |-> << LowerLetters[k] >>], <<" ">>)

\* The finalize events: an object whose text can be extracted (its type is
\* one of .pdf, .docx, .txt and the parser does not fail on it) or not, the
\* text it holds, the API key configured or not. docId and userId come from
\* the object's metadata.
IngestEvents ==
  [docId : {DocA}, userId : {Some("u1")}, filePath : {FilePathA},
   supported : BOOLEAN, content : {TextBlank, TextShort, IngestLongText},
   apiKey : BOOLEAN]

\* The name collection('chunks').doc() hands out after n others.
AutoId(n) == <<"a">> \o Decimal(n + 1)

\* docRef.set(initialData, { merge: true }) of lines 62-70
MarkedProcessing(snap, event) ==
  IF snap.defined
  THEN Some([snap.val EXCEPT !.status = "processing",
                             !.filePath = Some(event.filePath),
                             !.userId = IF event.userId.defined THEN event.userId ELSE @])
  ELSE Some([userId |-> event.userId, status |-> "processing",
             extractedText |-> Undefined, filePath |-> Some(event.filePath)])

\* docRef.set({ extractedText, status, ... }, { merge: true }) of lines 104-113
WithExtractedText(snap, event, extractedText) ==
  LET status == IF Trim(extractedText) # <<>> THEN "ready" ELSE "failed"
  IN  IF snap.defined
      THEN Some([snap.val EXCEPT !.extractedText = Some(extractedText),
                                 !.status = status,
                                 !.filePath = Some(event.filePath)])
      ELSE Some([userId |-> Undefined, status |-> status,
                 extractedText |-> Some(extractedText),
                 filePath |-> Some(event.filePath)])

\* chunks.slice(i, i + batchSize)
IngestSlice(g) == JsSlice(g.chunks, g.i, g.i + IngestBatchSize)

\* The records of lines 162-173, were the index counted within the slice.
SliceRecordsIndexInSlice(slice, i, sliceEmbeddings) ==
  [idx \in 1..Len(slice) |->
     [index |-> idx - 1, text |-> slice[idx],
      embedding |-> IF sliceEmbeddings.defined /\ idx <= Len(sliceEmbeddings.val)
                    THEN Vec(sliceEmbeddings.val[idx])
                    ELSE Undefined]]

\* The records of lines 162-173 for one slice: index i + idx, the text, and
\* the embedding at the same place of sliceEmbeddings when there is one.
SliceRecords(slice, i, sliceEmbeddings) ==
  [idx \in 1..Len(slice) |->
     [index |-> i + idx - 1, text |-> slice[idx],
      embedding |-> IF sliceEmbeddings.defined /\ idx <= Len(sliceEmbeddings.val)
                    THEN Vec(sliceEmbeddings.val[idx])
                    ELSE Undefined]]

\* The handler ends: it returns, or the error caught at line 180 is thrown on.
IngestFinish(g, r) == ing' = [g EXCEPT !.pc = "done", !.result = r]

\* What the loop of line 135 awaits first for a slice: the embeddings when
\* there is a model, else the commit.
SliceAwait(event) == IF event.apiKey THEN "embed" ELSE "commit"

\* Lines 38-61: the event arrives.
IngestBegin(event) ==
  /\ ing.pc = "idle"
  /\ ing' = [NoIngest EXCEPT !.pc = "mark", !.event = Some(event)]
  /\ UNCHANGED <<storeVars, askVars, chunkerVars, deleteVars, pureVars, sessionVars>>

\* The same event is delivered once more after the handler has ended.
IngestAgain ==
  /\ ing.pc = "done"
  /\ ~ing.redelivered
  /\ ing' = [NoIngest EXCEPT !.pc = "mark", !.event = ing.event, !.redelivered = TRUE,
                             !.allocated = ing.allocated]
  /\ UNCHANGED <<storeVars, askVars, chunkerVars, deleteVars, pureVars, sessionVars>>

\* Lines 62-70: the document is marked 'processing'.
IngestMark(ok) ==
  /\ ing.pc = "mark"
  /\ LET event == ing.event.val
     IN  IF ok
         THEN /\ docs' = [docs EXCEPT ![event.docId] = MarkedProcessing(@, event)]
              /\ ing' = [ing EXCEPT !.pc = "download", !.marked = TRUE]
         ELSE /\ IngestFinish(ing, Thrown("unhandled", "mark"))
              /\ UNCHANGED docs
  /\ UNCHANGED <<chunkStore, askVars, chunkerVars, deleteVars, pureVars, sessionVars>>

\* Lines 72-102: the object is downloaded and its text extracted; a type
\* that is not parsed, or a parser's failure (caught), gives the empty text.
IngestDownload(ok) ==
  /\ ing.pc = "download"
  /\ LET event == ing.event.val
     IN  IF ok
         THEN ing' = [ing EXCEPT !.pc = "setText",
                                 !.extractedText = IF event.supported
                                                   THEN event.content ELSE <<>>]
         ELSE IngestFinish(ing, Thrown("unhandled", "download"))
  /\ UNCHANGED <<storeVars, askVars, chunkerVars, deleteVars, pureVars, sessionVars>>

\* Lines 104-135: the text and the status are written; a text that is not
\* blank is chunked and the loop over the write batches begins.
IngestSetText(ok) ==
  /\ ing.pc = "setText"
  /\ LET event == ing.event.val
         text  == ing.extractedText
     IN  IF ~ok
         THEN /\ IngestFinish(ing, Thrown("unhandled", "set"))
              /\ UNCHANGED docs
         ELSE /\ docs' = [docs EXCEPT ![event.docId] = WithExtractedText(@, event, text)]
              /\ IF Trim(text) # <<>>
                 THEN ing' = [ing EXCEPT
                                !.pc = SliceAwait(event),
                                !.chunks = chunkTextByWords(text, IngestTargetWords,
                                                            IngestOverlapWords)]
                 ELSE IngestFinish(ing, [status |-> "ok"])
  /\ UNCHANGED <<chunkStore, askVars, chunkerVars, deleteVars, pureVars, sessionVars>>

\* Lines 143-159: the embeddings of one sub-batch arrive and are pushed in
\* order, or the request fails (caught) and the slice goes without.
IngestEmbed(ok, vals) ==
  /\ ing.pc = "embed"
  /\ LET slice == IngestSlice(ing)
         sub   == JsSlice(slice, ing.j, ing.j + IngestEmbedBatchSize)
         sofar == IF ing.sliceEmbeddings.defined THEN ing.sliceEmbeddings.val ELSE <<>>
     IN  IF ok
         THEN /\ Len(vals) = Len(sub)
              /\ ing' = [ing EXCEPT
                           !.sliceEmbeddings = Some(sofar \o vals),
                           !.j = @ + IngestEmbedBatchSize,
                           !.returned = @ \o [k \in 1..Len(sub) |->
                                                [text |-> sub[k], values |-> vals[k]]],
                           !.pc = IF ing.j + IngestEmbedBatchSize < Len(slice)
                                  THEN "embed" ELSE "commit"]
         ELSE /\ vals = <<>>
              /\ ing' = [ing EXCEPT !.sliceEmbeddings = Undefined, !.pc = "commit"]
  /\ UNCHANGED <<storeVars, askVars, chunkerVars, deleteVars, pureVars, sessionVars>>

\* Lines 162-175: the records of the slice are written in one batch, each
\* under a new name; then the next slice, or the handler returns (line 179).
IngestCommit(ok) ==
  /\ ing.pc = "commit"
  /\ LET event   == ing.event.val
         slice   == IngestSlice(ing)
         records == SliceRecords(slice, ing.i, ing.sliceEmbeddings)
         names   == {AutoId(ing.allocated + idx - 1) : idx \in 1..Len(slice)}
         NameOf(idx) == AutoId(ing.allocated + idx - 1)
         after   == [ing EXCEPT !.i = @ + IngestBatchSize, !.j = 0,
                                !.sliceEmbeddings = Undefined,
                                !.written = @ \cup names,
                                !.allocated = @ + Len(slice)]
     IN  IF ~ok
         THEN /\ IngestFinish(ing, Thrown("unhandled", "commit"))
              /\ UNCHANGED chunkStore
         ELSE /\ chunkStore' =
                   [chunkStore EXCEPT ![event.docId] =
                      [id \in (DOMAIN @) \cup names |->
                         IF id \in names
                         THEN records[CHOOSE idx \in 1..Len(slice) : NameOf(idx) = id]
                         ELSE @[id]]]
              /\ IF after.i < Len(ing.chunks)
                 THEN ing' = [after EXCEPT !.pc = SliceAwait(event)]
                 ELSE IngestFinish(after, [status |-> "ok"])
  /\ UNCHANGED <<docs, askVars, chunkerVars, deleteVars, pureVars, sessionVars>>

\* No document, no chunk record, nothing running.
IngestInit ==
  /\ docs = [d \in DocIds |-> Undefined]
  /\ chunkStore = [d \in DocIds |-> NoChunks]
  /\ AskIdle
  /\ IngestIdle
  /\ SessionsIdle
  /\ ChunkerIdle
  /\ PureIdle
  /\ DeleteIdle

\* What the embedding capability may return for the texts of a sub-batch.
IngestVectors == UNION {[1..n -> FreshVectors] : n \in 0..IngestEmbedBatchSize}

IngestSteps ==
  \/ \E ok \in BOOLEAN : IngestMark(ok)
  \/ \E ok \in BOOLEAN : IngestDownload(ok)
  \/ \E ok \in BOOLEAN : IngestSetText(ok)
  \/ \E ok \in BOOLEAN, vals \in IngestVectors : IngestEmbed(ok, vals)
  \/ \E ok \in BOOLEAN : IngestCommit(ok)

\* One upload, its event handled once or twice.
IngestNext ==
  \/ \E event \in IngestEvents : IngestBegin(event)
  \/ IngestAgain
  \/ IngestSteps

SpecIngest == IngestInit /\ [][IngestNext]_vars /\ WF_vars(IngestNext)

(***************************************************************************)
(* askQuestion while the document is being ingested                        *)
(***************************************************************************)

\* An upload with a text of several write batches is ingested once, while
\* one user asks about the document, every call of askQuestion succeeding
\* when it gets that far. The steps of the two functions interleave at
\* their awaits.
IngestAskNext ==
  \/ \E event \in {e \in IngestEvents : e.supported /\ e.content = IngestLongText} :
       IngestBegin(event)
  \/ IngestSteps
  \/ AskBegin(Some("u1"), Some(QuestionNoTerms), Some(DocA), FALSE, TRUE)
  \/ LoadDoc
  \/ LoadChunks
  \/ FindRelevant(TRUE, TRUE)
  \/ QEmbed(TRUE, Pad(<<1>>))
  \/ Reembed(TRUE, Pad(<<1>>))
  \/ \E committed \in BOOLEAN : Backfill(committed)
  \/ Generate(TRUE)
  \/ FollowUps(TRUE)
  \/ Respond

SpecIngestAsk == IngestInit /\ [][IngestAskNext]_vars

(***************************************************************************)
(* ChatSessionsProvider (ChatSessionsContext.tsx)                          *)
(*                                                                         *)
(* chat.stored is users/{uid}/sessions on the server, newest first, as the *)
(* query of line 138 orders it. The callback given to onSnapshot is made   *)
(* by the effect of lines 130-153, which runs when `user` changes only: it *)
(* reads the activeSessionId of the render in which the effect ran, kept   *)
(* in chat.closureActiveSessionId. chat.selected is the session the user   *)
(* chose last with switchSession or newSession, '' once it is deleted or   *)
(* the user has signed out.                                                *)
(***************************************************************************)

\* The most sessions a user creates.
MaxSessions == 3

\* The id addDoc gives the n-th session.
SessionId(n) == <<"s">> \o Decimal(n)

\* Array.prototype.filter((s) => s !== id)
Remove(ids, id) == SelectSeq(ids, LAMBDA s : s # id)

\* The user signs in: the effect of lines 130-153 runs and subscribes.
SignIn ==
  /\ ~chat.user.defined
  /\ chat' = [chat EXCEPT !.user = Some("u1"), !.subscribed = TRUE,
                          !.closureActiveSessionId = chat.activeSessionId,
                          !.snapshotDue = TRUE]
  /\ UNCHANGED <<storeVars, askVars, chunkerVars, deleteVars, pureVars, ingestVars>>

\* The user signs out: the subscription is dropped and lines 131-135 run.
SignOut ==
  /\ chat.user.defined
  /\ chat' = [chat EXCEPT !.user = Undefined, !.subscribed = FALSE,
                          !.sessions = <<>>, !.activeSessionId = <<>>,
                          !.snapshotDue = FALSE, !.selected = <<>>]
  /\ UNCHANGED <<storeVars, askVars, chunkerVars, deleteVars, pureVars, ingestVars>>

\* Lines 139-151: a snapshot of the sessions arrives.
SessionsSnapshot ==
  /\ chat.subscribed
  /\ chat.snapshotDue
  /\ LET next == chat.stored
     IN  chat' = [chat EXCEPT
                    !.sessions = next,
                    !.snapshotDue = FALSE,
                    !.activeSessionId =
                       IF chat.closureActiveSessionId = <<>> /\ Len(next) > 0
                       THEN next[1] ELSE @]
  /\ UNCHANGED <<storeVars, askVars, chunkerVars, deleteVars, pureVars, ingestVars>>

\* Lines 67-69
switchSession(id) ==
  /\ chat.user.defined
  /\ \E k \in 1..Len(chat.sessions) : chat.sessions[k] = id
  /\ chat' = [chat EXCEPT !.activeSessionId = id, !.selected = id]
  /\ UNCHANGED <<storeVars, askVars, chunkerVars, deleteVars, pureVars, ingestVars>>

\* Lines 55-62: newSession is called and the session is added to the store.
NewSessionAdd ==
  /\ chat.user.defined
  /\ chat.adding = <<>>
  /\ chat.created < MaxSessions
  /\ LET id == SessionId(chat.created + 1)
     IN  chat' = [chat EXCEPT !.stored = << id >> \o @, !.created = @ + 1,
                              !.adding = id, !.snapshotDue = TRUE]
  /\ UNCHANGED <<storeVars, askVars, chunkerVars, deleteVars, pureVars, ingestVars>>

\* Lines 63-64: addDoc has resolved, the new session is made the active one.
NewSessionSet ==
  /\ chat.adding # <<>>
  /\ chat' = [chat EXCEPT !.activeSessionId = chat.adding, !.adding = <<>>,
                          !.selected = IF chat.user.defined THEN chat.adding ELSE @]
  /\ UNCHANGED <<storeVars, askVars, chunkerVars, deleteVars, pureVars, ingestVars>>

\* Lines 71-85: addMessage adds a message to the active session and updates
\* the session's updatedAt, which the sessions query reports.
addMessage ==
  /\ chat.user.defined
  /\ chat.activeSessionId # <<>>
  /\ \E k \in 1..Len(chat.stored) : chat.stored[k] = chat.activeSessionId
  /\ chat' = [chat EXCEPT !.snapshotDue = chat.subscribed]
  /\ UNCHANGED <<storeVars, askVars, chunkerVars, deleteVars, pureVars, ingestVars>>

\* Lines 98-119: deleteSession(id) is called and the session document is
\* deleted (a failure is caught).
DeleteSessionDoc(id, ok) ==
  /\ chat.user.defined
  /\ chat.deleting = <<>>
  /\ \E k \in 1..Len(chat.sessions) : chat.sessions[k] = id
  /\ chat' = [chat EXCEPT !.deleting = id,
                          !.deleteClosureActiveSessionId = chat.activeSessionId,
                          !.stored = IF ok THEN Remove(@, id) ELSE @,
                          !.snapshotDue = IF ok /\ Remove(chat.stored, id) # chat.stored
                                          THEN chat.subscribed ELSE @,
                          !.selected = IF @ = id THEN <<>> ELSE @]
  /\ UNCHANGED <<storeVars, askVars, chunkerVars, deleteVars, pureVars, ingestVars>>

\* Lines 120-126: the local state is cleared.
DeleteSessionLocal ==
  /\ chat.deleting # <<>>
  /\ chat' = [chat EXCEPT !.deleting = <<>>,
                          !.deleteClosureActiveSessionId = <<>>,
                          !.selected = IF @ = chat.deleting THEN <<>> ELSE @,
                          !.activeSessionId =
                             IF chat.deleteClosureActiveSessionId = chat.deleting
                             THEN <<>> ELSE @]
  /\ UNCHANGED <<storeVars, askVars, chunkerVars, deleteVars, pureVars, ingestVars>>

SessionsInit == IngestInit

SessionsNext ==
  \/ SignIn
  \/ SignOut
  \/ SessionsSnapshot
  \/ \E n \in 1..MaxSessions : switchSession(SessionId(n))
  \/ NewSessionAdd
  \/ NewSessionSet
  \/ addMessage
  \/ \E n \in 1..MaxSessions, ok \in BOOLEAN : DeleteSessionDoc(SessionId(n), ok)
  \/ DeleteSessionLocal

SpecSessions == SessionsInit /\ [][SessionsNext]_vars

(***************************************************************************)
(* Properties                                                              *)
(***************************************************************************)

\* The invocation has ranked its candidates (lines 168-175 have run).
HasRanked == loc.k # 0

Answered == pc = "done" /\ result.status = "ok"

\* The call passed the checks of lines 31-48.
WellFormedCall ==
  req.uid.defined /\ ~Blank(req.question) /\ ~Blank(req.documentId) /\ req.apiKey

\* The invocation runs on chunks made up from extractedText.
OnFallbackChunks ==
  Len(loc.chunks) > 0 /\ StartsWith(loc.chunks[1].id, FallbackPrefix)

CandidateIds == {loc.filtered[k].id : k \in 1..Len(loc.filtered)}

\* C1 (as claimed): when an embedding request for the candidates fails, the
\* invocation does not end in an error: it goes on to rank and to answer.
C1_EmbeddingFailureDegrades ==
  (pc = "done" /\ loc.embedFailed \in {"batch", "chunk"}) => result.status = "ok"

\* C2: once a backfill has committed, every chunk record it named holds the
\* vector computed for it, a record that was ever backfilled holds a vector
\* of the capability's length, and no later invocation requests an embedding
\* for a chunk backfilled before it began.
C2_BackfillPersistedAndReused ==
  /\ (loc.backfill = "committed") =>
       \A k \in 1..Len(loc.toBackfill) :
         chunkStore[req.documentId.val][loc.toBackfill[k].id].embedding
           = Some(loc.toBackfill[k].values)
  /\ \A d \in DocIds : \A id \in (backfilled \cap DOMAIN chunkStore[d]) :
       /\ chunkStore[d][id].embedding.defined
       /\ Len(chunkStore[d][id].embedding.val) = EmbedDim
  /\ \A k \in 1..Len(embedLog) : embedLog[k] \notin priorBackfilled

\* A later invocation has answered with a chunk backfilled earlier among its
\* candidates.
C2_Witness ==
  /\ Answered
  /\ CandidateIds \cap priorBackfilled # {}

\* The greatest of the similarities: one of them that none exceeds.
GreatestSim(sims) ==
  CHOOSE m \in {sims[k] : k \in 1..Len(sims)} : \A k \in 1..Len(sims) : ~SimLess(m, sims[k])

\* C3: K is 2 when the greatest candidate similarity is at least 0.8, 6 when
\* it is below 0.6 and 4 otherwise; at exactly 0.6 it is 4, at exactly 0.8 it
\* is 2.
C3_DynamicK ==
  HasRanked =>
    LET m == GreatestSim(loc.sims)
    IN  /\ SimGeq(m, Sim(4, 25)) => loc.k = 2
        /\ SimLess(m, Sim(3, 25)) => loc.k = 6
        /\ (SimGeq(m, Sim(3, 25)) /\ SimLess(m, Sim(4, 25))) => loc.k = 4
        /\ SimEq(m, Sim(3, 25)) => loc.k = 4
        /\ SimEq(m, Sim(4, 25)) => loc.k = 2

\* An answer whose greatest candidate similarity was exactly 0.8.
C3_Witness ==
  /\ Answered
  /\ SimEq(GreatestSim(loc.sims), Sim(4, 25))
  /\ loc.k = 2

\* C4: the answer names min(K, number of candidates) chunks, as top chunk ids
\* and as citations, each of them a candidate and none twice.
C4_EvidenceSize ==
  Answered =>
    /\ Len(result.topChunkIds) = Min(loc.k, Len(loc.filtered))
    /\ Len(result.citations) = Min(loc.k, Len(loc.filtered))
    /\ \A j \in 1..Len(result.topChunkIds) :
         /\ result.topChunkIds[j] \in CandidateIds
         /\ result.citations[j].chunkId = result.topChunkIds[j]
         /\ \A h \in 1..Len(result.topChunkIds) :
              h # j => result.topChunkIds[h] # result.topChunkIds[j]

\* An answer over more candidates than K.
C4_Witness ==
  /\ Answered
  /\ Len(loc.filtered) > loc.k
  /\ Len(result.topChunkIds) = loc.k

\* C5: the selected candidates come in non-increasing similarity, none left
\* out is more similar than one selected, and among equally similar
\* candidates the earlier candidate comes first (and is selected first).
C5_TopKOrder ==
  HasRanked =>
    LET sel == {loc.topIdx[j] + 1 : j \in 1..Len(loc.topIdx)}
        out == (1..Len(loc.filtered)) \ sel
        n   == Len(loc.topIdx)
    IN  /\ \A a \in 1..n : \A b \in (a + 1)..n :
             /\ ~SimLess(loc.sims[loc.topIdx[a] + 1], loc.sims[loc.topIdx[b] + 1])
             /\ SimEq(loc.sims[loc.topIdx[a] + 1], loc.sims[loc.topIdx[b] + 1])
                  => loc.topIdx[a] < loc.topIdx[b]
        /\ \A i \in sel : \A j \in out :
             /\ ~SimLess(loc.sims[i], loc.sims[j])
             /\ SimEq(loc.sims[i], loc.sims[j]) => i < j
        /\ \A j \in 1..n : loc.topChunks[j] = loc.filtered[loc.topIdx[j] + 1]
        /\ Answered =>
             result.topChunkIds = [j \in 1..n |-> loc.filtered[loc.topIdx[j] + 1].id]

\* An answer in which two selected candidates are equally similar, and a
\* candidate left out is as similar as one selected.
C5_Witness ==
  /\ Answered
  /\ \E a \in 1..Len(loc.topIdx) : \E b \in (a + 1)..Len(loc.topIdx) :
       SimEq(loc.sims[loc.topIdx[a] + 1], loc.sims[loc.topIdx[b] + 1])
  /\ \E i \in 1..Len(loc.filtered) :
       /\ \A j \in 1..Len(loc.topIdx) : loc.topIdx[j] + 1 # i
       /\ SimEq(loc.sims[i], loc.sims[loc.topIdx[Len(loc.topIdx)] + 1])

\* A string with no character but whitespace.
AllWhitespace(text) == \A i \in 1..Len(text) : text[i] \in WhiteSpace

\* The document of the call has no chunk record and no text to chunk.
NothingToRead ==
  LET d == req.documentId.val
  IN  /\ DOMAIN chunkStore[d] = {}
      /\ \/ ~docs[d].val.extractedText.defined
         \/ AllWhitespace(docs[d].val.extractedText.val)

\* C6: on an existing document the invocation works on the stored chunk
\* records, in index order, whenever there is one; with none it works on the
\* chunks of extractedText, the i-th (from 0) with id fallback_<i>; it fails
\* as not ready exactly when there is no record and no text but whitespace.
C6_ChunkSource ==
  /\ pc = "findRelevant" =>
       LET stored == chunkStore[req.documentId.val]
           text   == docs[req.documentId.val].val.extractedText
       IN  IF DOMAIN stored # {}
           THEN /\ Len(loc.chunks) = Cardinality(DOMAIN stored)
                /\ {loc.chunks[k].id : k \in 1..Len(loc.chunks)} = DOMAIN stored
                /\ \A k \in 1..Len(loc.chunks) :
                     /\ loc.chunks[k].index = stored[loc.chunks[k].id].index
                     /\ loc.chunks[k].text = stored[loc.chunks[k].id].text
                     /\ loc.chunks[k].embedding = stored[loc.chunks[k].id].embedding
                     /\ k > 1 => loc.chunks[k - 1].index <= loc.chunks[k].index
           ELSE /\ text.defined
                /\ Len(loc.chunks) = Len(chunkTextByWords(text.val, 900, 120))
                /\ \A k \in 1..Len(loc.chunks) :
                     /\ loc.chunks[k].id = FallbackPrefix \o Decimal(k - 1)
                     /\ loc.chunks[k].text = chunkTextByWords(text.val, 900, 120)[k]
  /\ (pc = "done" /\ WellFormedCall) =>
       IF docs[req.documentId.val].defined
       THEN (result = Thrown("failed-precondition", "not-ready")) <=> NothingToRead
       ELSE result # Thrown("failed-precondition", "not-ready")

\* The invocation has loaded two fallback chunks.
C6_Witness ==
  /\ pc = "findRelevant"
  /\ Len(loc.chunks) = 2
  /\ loc.chunks[2].id = FallbackPrefix \o <<"1">>

\* C7: no vector of a fallback chunk enters the backfill batch, and an
\* invocation on fallback chunks never waits for a backfill commit, never
\* commits one and leaves the document without chunk records.
C7_FallbackNeverBackfilled ==
  /\ \A k \in 1..Len(loc.toBackfill) : ~StartsWith(loc.toBackfill[k].id, FallbackPrefix)
  /\ OnFallbackChunks =>
       /\ pc # "backfill"
       /\ loc.backfill = "none"
       /\ DOMAIN chunkStore[req.documentId.val] = {}

\* An answer over fallback chunks whose vectors were all computed.
C7_Witness ==
  /\ Answered
  /\ OnFallbackChunks
  /\ Len(loc.filteredComputed) = Len(loc.filtered)
  /\ \E k \in 1..Len(embedLog) : StartsWith(embedLog[k], FallbackPrefix)

\* The vector ranked for candidate k: the stored one when usable, else the
\* one computed for the backfill.
RankedVector(k) ==
  LET c == loc.filtered[k]
  IN  IF c.embedding.defined /\ Len(c.embedding.val) = Len(loc.qEmbedding)
      THEN c.embedding.val
      ELSE loc.toBackfill[CHOOSE j \in 1..Len(loc.toBackfill) : loc.toBackfill[j].id = c.id].values

\* C8: after a failed backfill the invocation ends as after a committed one:
\* only with the answer or with the generation's failure, and the evidence
\* is the one the candidates and their vectors determine.
C8_BackfillOutcomeIrrelevant ==
  (loc.backfill \in {"failed", "committed"}) =>
    LET vectors  == [k \in 1..Len(loc.filtered) |-> RankedVector(k)]
        sims     == Sims(loc.qEmbedding, vectors)
        evidence == TopChunks(TopIdx(sims, DynamicK(MathMax(sims))), loc.filtered)
    IN  /\ loc.topChunks = evidence
        /\ pc = "done" => (result.status = "ok" \/ result.what = "generation")
        /\ Answered =>
             /\ result.topChunkIds = [j \in 1..Len(evidence) |-> evidence[j].id]
             /\ result.citations = Citations(evidence)
             /\ result.flaggedClauses = detectRiskyClauses(evidence)

\* An answer returned after the backfill commit failed.
C8_Witness ==
  /\ Answered
  /\ loc.backfill = "failed"
  /\ Len(result.flaggedClauses) > 0

\* The non-empty whitespace-separated tokens of a text.
WordsOf(text) == FilterBoolean(SplitWhitespace(text))

\* The number of the first window that ends at the last of n words.
LastWindow(n, step, targetWords) ==
  CHOOSE k \in 0..(n + Max(0, 0 - targetWords)) :
    /\ Min(n, k * step + targetWords) = n
    /\ \A j \in 0..(k - 1) : Min(n, j * step + targetWords) # n

\* words[from .. to), positions counted from 0, joined by single spaces.
Window(words, from, to) ==
  IF to > from THEN Join(SubSeq(words, from + 1, to), <<" ">>) ELSE <<>>

\* The windows words[k*step .. min(n, k*step + targetWords)), k = 0, 1, ...,
\* up to and including the first that ends at n.
Windows(text, targetWords, overlapWords) ==
  LET words == WordsOf(text)
      n     == Len(words)
      step  == Max(1, targetWords - Max(0, overlapWords))
  IN  IF n = 0 THEN <<>>
      ELSE [k \in 1..(LastWindow(n, step, targetWords) + 1) |->
              Window(words, (k - 1) * step, Min(n, (k - 1) * step + targetWords))]

\* The chunks are the windows, and the 1000 words chunked with (900, 120)
\* give words[0:900] and words[780:1000].
ChunksAreWindows ==
  /\ cOut.val = Windows(cIn.text, cIn.targetWords, cIn.overlapWords)
  /\ (cIn.text = Text1000 /\ cIn.targetWords = 900 /\ cIn.overlapWords = 120) =>
       cOut.val = << Window(WordsOf(Text1000), 0, 900), Window(WordsOf(Text1000), 780, 1000) >>

\* C9 (as claimed): for every text and every integer targetWords and
\* overlapWords, chunkTextByWords returns the windows
\* words[k*step .. min(n, k*step + targetWords)) in order, up to and including
\* the first that ends at n.
C9_WindowsForAnyTarget == cOut.defined => ChunksAreWindows

\* C9 (amended): for targetWords >= 1, chunkTextByWords returns the windows
\* words[k*step .. min(n, k*step + targetWords)) in order, up to and including
\* the first that ends at n, step being max(1, targetWords - max(0,
\* overlapWords)); 1000 words with (900, 120) give words[0:900] and
\* words[780:1000].
C9_WindowsForPositiveTarget ==
  (cOut.defined /\ cIn.targetWords >= 1) => ChunksAreWindows

\* A run with overlapping windows that returned more than one chunk.
C9_Witness ==
  /\ cOut.defined
  /\ cIn.targetWords >= 2
  /\ cIn.overlapWords >= 1
  /\ Len(cOut.val) >= 2

\* The words of chunk k that its predecessor did not end with: all of the
\* first chunk, and the others less their first targetWords - step words.
UniqueSpan(chunks, k, targetWords, overlapWords) ==
  LET words   == WordsOf(chunks[k])
      step    == Max(1, targetWords - Max(0, overlapWords))
      overlap == IF k = 1 THEN 0 ELSE Max(0, targetWords - step)
  IN  JsSlice(words, Min(overlap, Len(words)), Len(words))

\* Every input word occurs in a chunk, and the chunks' unique spans, put end
\* to end, are the input words.
ChunksCoverInput ==
  LET words  == WordsOf(cIn.text)
      chunks == cOut.val
      Span(k) == UniqueSpan(chunks, k, cIn.targetWords, cIn.overlapWords)
      Elements(ws) == {ws[j] : j \in 1..Len(ws)}
      occurring == UNION {Elements(WordsOf(chunks[k])) : k \in 1..Len(chunks)}
  IN  /\ \A i \in 1..Len(words) : words[i] \in occurring
      /\ ConcatMap(Span, 1, Len(chunks)) = words

\* C10 (as claimed): for any text and any targetWords and overlapWords the
\* chunks cover the input and their unique spans reconstruct the word
\* sequence.
C10_CoverageForAnyTarget == cOut.defined => ChunksCoverInput

\* C10 (amended): for any text, any targetWords >= 1 and any overlapWords,
\* every input word occurs in a chunk and the chunks, each after the first
\* less its first targetWords - step words, concatenate to the input word
\* sequence.
C10_CoverageForPositiveTarget ==
  (cOut.defined /\ cIn.targetWords >= 1) => ChunksCoverInput

\* A run that returned three chunks or more, each sharing a word with the
\* one before.
C10_Witness ==
  /\ cOut.defined
  /\ cIn.targetWords = 2
  /\ cIn.overlapWords = 1
  /\ Len(cOut.val) >= 3

\* Where chunk k starts among the input words when every chunk starts
\* `overlap` words before the end of its predecessor (positions from 0).
RECURSIVE StartOf(_, _, _)
StartOf(chunks, k, overlap) ==
  IF k = 1 THEN 0
  ELSE StartOf(chunks, k - 1, overlap) + Len(WordsOf(chunks[k - 1])) - overlap

\* Consecutive chunks overlap by exactly overlapWords words: the last
\* overlapWords words of a chunk are the first overlapWords words of the next,
\* which starts that many words before its predecessor's end; the last chunk
\* may start earlier still.
ConsecutiveOverlap ==
  LET words  == WordsOf(cIn.text)
      chunks == cOut.val
      o      == cIn.overlapWords
  IN  \A k \in 1..(Len(chunks) - 1) :
        LET a == WordsOf(chunks[k])
            b == WordsOf(chunks[k + 1])
            s == StartOf(chunks, k + 1, o)
        IN  /\ o >= 0
            /\ Len(a) >= o
            /\ Len(b) >= o
            /\ SubSeq(a, Len(a) - o + 1, Len(a)) = SubSeq(b, 1, o)
            /\ IF k + 1 < Len(chunks)
               THEN chunks[k + 1] = Window(words, s, s + Len(b))
               ELSE /\ Len(words) - Len(b) <= s
                    /\ chunks[k + 1] = Window(words, Len(words) - Len(b), Len(words))

\* C11 (as claimed): for any targetWords and overlapWords, every pair of
\* consecutive chunks overlaps by exactly overlapWords words, the last pair
\* possibly by more.
C11_OverlapForAnyParameters == cOut.defined => ConsecutiveOverlap

\* C11 (amended): for targetWords >= 1 and 0 <= overlapWords < targetWords,
\* every pair of consecutive chunks overlaps by exactly overlapWords words,
\* the last pair possibly by more.
C11_OverlapWithinTarget ==
  (cOut.defined /\ cIn.targetWords >= 1
     /\ 0 <= cIn.overlapWords /\ cIn.overlapWords < cIn.targetWords)
    => ConsecutiveOverlap

\* A run with an overlap of two words that returned two chunks or more.
C11_Witness ==
  /\ cOut.defined
  /\ cIn.overlapWords = 2
  /\ cIn.targetWords > 2
  /\ Len(cOut.val) >= 2

\* C12: an empty text gives no chunk; a text of at least one word and fewer
\* than targetWords words gives one chunk, holding all its words in order.
C12_EmptyAndShortTexts ==
  cOut.defined =>
    /\ cIn.text = <<>> => cOut.val = <<>>
    /\ (Len(WordsOf(cIn.text)) >= 1 /\ Len(WordsOf(cIn.text)) < cIn.targetWords) =>
         /\ Len(cOut.val) = 1
         /\ WordsOf(cOut.val[1]) = WordsOf(cIn.text)

\* A run on two words or more, fewer than targetWords, that returned one
\* chunk.
C12_Witness ==
  /\ cOut.defined
  /\ Len(WordsOf(cIn.text)) >= 2
  /\ Len(WordsOf(cIn.text)) < cIn.targetWords
  /\ Len(cOut.val) = 1

\* The run has returned through the break, its last window ending at the
\* last word and pushed as the last chunk.
EndsAtLastWord ==
  /\ cLoop.exit = "break"
  /\ cLoop.end = Len(cLoop.words)
  /\ cOut.val # <<>>
  /\ cOut.val[Len(cOut.val)] = Window(cLoop.words, cLoop.start, Len(cLoop.words))

\* The body has run at most once per word.
LoopBounded == cLoop.iterations <= Len(cLoop.words)

\* C20 (as claimed): chunkTextByWords terminates for every text and every
\* integer targetWords and overlapWords, and the loop ends exactly when a
\* window's end reaches the word count: on an input with words the last
\* chunk ends at the last word.
C20_EndsAtLastWordForAnyTarget ==
  /\ LoopBounded
  /\ (cLoop.pc = "returned" /\ Len(cLoop.words) > 0) => EndsAtLastWord

\* C20 (amended): chunkTextByWords terminates for every text and every
\* integer targetWords and overlapWords; for targetWords >= 1 the loop ends
\* exactly when a window's end reaches the word count, so that on an input
\* with words the last chunk ends at the last word.
C20_TerminatesAndEndsAtLastWord ==
  /\ <>(cLoop.pc = "returned")
  /\ [](LoopBounded)
  /\ []((cLoop.pc = "returned" /\ Len(cLoop.words) > 0 /\ cIn.targetWords >= 1)
          => EndsAtLastWord)

\* A run with overlapWords >= targetWords that returned after three runs of
\* the body or more.
C20_Witness ==
  /\ cLoop.pc = "returned"
  /\ cIn.targetWords >= 1
  /\ cIn.overlapWords >= cIn.targetWords
  /\ cLoop.iterations >= 3
  /\ cLoop.exit = "break"

\* The loop, followed step by step, returns what chunkTextByWords gives.
LoopAgreesWithChunker ==
  cLoop.pc = "returned" =>
    cOut.val = chunkTextByWords(cIn.text, cIn.targetWords, cIn.overlapWords)

\* C13 (as claimed): for every question, chunk list and integer cap,
\* prefilterChunks returns at most max(cap, 0) indices, each within 0..N-1
\* and none twice.
C13_AtMostCapIndices ==
  pOut.defined =>
    LET out == pOut.val.indices
    IN  /\ Len(out) <= Max(pIn.cap, 0)
        /\ \A j \in 1..Len(out) :
             /\ out[j] \in 0..(Len(pIn.chunks) - 1)
             /\ \A h \in 1..Len(out) : h # j => out[h] # out[j]

\* The usable terms of a question as a set: each once.
DistinctTerms(question) ==
  {QueryTerms(question)[j] : j \in 1..Len(QueryTerms(question))}

\* C14 (as claimed): when the question has usable terms, the score of a
\* chunk is the number of distinct usable terms that occur in its lowercased
\* text: no term counts more than once.
C14_ScoreCountsDistinctTerms ==
  (pOut.defined /\ DistinctTerms(pIn.question) # {}) =>
    \A k \in 1..Len(pIn.chunks) :
      pOut.val.scores[k]
        = Cardinality({t \in DistinctTerms(pIn.question) :
                         Includes(ToLowerCase(pIn.chunks[k]), t)})

\* C15: when the question has no usable term, or no chunk holds one, the
\* indices returned are 0 .. min(cap, N) - 1, ascending.
C15_NoSignalKeepsOrder ==
  (pOut.defined
     /\ \/ DistinctTerms(pIn.question) = {}
        \/ \A k \in 1..Len(pIn.chunks) :
             \A t \in DistinctTerms(pIn.question) :
               ~Includes(ToLowerCase(pIn.chunks[k]), t))
    => pOut.val.indices = [j \in 1..Min(pIn.cap, Len(pIn.chunks)) |-> j - 1]

\* A run whose question has a usable term that no chunk holds, on more
\* chunks than the cap.
C15_Witness ==
  /\ pOut.defined
  /\ DistinctTerms(pIn.question) # {}
  /\ \A k \in 1..Len(pIn.chunks) : pOut.val.scores[k] = 0
  /\ pIn.cap = 2
  /\ Len(pIn.chunks) = 3
  /\ pOut.val.indices = <<0, 1>>

\* A vector of no magnitude: every coordinate is 0.
ZeroMagnitude(v) == \A i \in 1..Len(v) : v[i] = 0

\* C16: cosineSimilarity gives exactly 0 when a vector is absent, when the
\* lengths differ and when a vector has no magnitude; it never divides by 0.
C16_ZeroOnDegenerateVectors ==
  sOut.defined =>
    /\ sOut.val.den > 0
    /\ (\/ ~sIn.vecA.defined
        \/ ~sIn.vecB.defined
        \/ Len(sIn.vecA.val) # Len(sIn.vecB.val)
        \/ ZeroMagnitude(sIn.vecA.val)
        \/ ZeroMagnitude(sIn.vecB.val)) => sOut.val = SimZero

\* A run on a zero vector and a non-zero one of the same length.
C16_Witness ==
  /\ sOut.defined
  /\ sIn.vecA.defined /\ sIn.vecB.defined
  /\ Len(sIn.vecA.val) = 2 /\ Len(sIn.vecB.val) = 2
  /\ ZeroMagnitude(sIn.vecA.val)
  /\ ~ZeroMagnitude(sIn.vecB.val)
  /\ sOut.val = SimZero

\* The record deleteFile was called on, as the store holds it now.
DeleteTarget == DocAt(del.documentId.val)

\* C17 (as claimed): deleteFile deletes a document's record, chunk records
\* or file only when the record's userId is the caller's uid; for every
\* other signed-in caller it fails with permission-denied, and deletes
\* nothing.
C17_OnlyOwnerDeletes ==
  /\ [](del.data.defined => del.data.val.userId = del.uid)
  /\ [][(del.pc = "get" /\ del' # del /\ DeleteTarget.defined
           /\ DeleteTarget.val.userId # del.uid)
          => del'.result = Thrown("permission-denied", "owner")]_vars
  /\ [][(del.pc \notin {"idle", "done"}
           /\ (docs' # docs \/ chunkStore' # chunkStore \/ files' # files))
          => (DeleteTarget.defined /\ DeleteTarget.val.userId = del.uid)]_vars
  /\ [][(del'.result = Thrown("permission-denied", "owner"))
          => UNCHANGED <<docs, chunkStore, files>>]_vars

\* C18 (as claimed): whenever deleteFile returns success, the document's
\* record is gone and none of its chunk records remains, also when the
\* deletion of the chunks failed.
C18_ChunksGoWithDocument ==
  (del.pc = "done" /\ del.result.status = "ok") =>
    /\ ~DocAt(del.documentId.val).defined
    /\ DOMAIN ChunksAt(del.documentId.val) = {}

\* C19 (as claimed): askQuestion and deleteFile refuse a caller who is not
\* signed in, and then a missing or blank question or documentId, before any
\* call to the store, to Cloud Storage or to a model; a document that does not
\* exist gives not-found before any embedding request.
C19_RejectBeforeAnyCall ==
  /\ pc = "done" =>
       /\ ~req.uid.defined =>
            (result = Thrown("unauthenticated", "sign-in") /\ external = {})
       /\ (req.uid.defined /\ (Blank(req.question) \/ Blank(req.documentId))) =>
            (result.status = "error" /\ result.code = "invalid-argument" /\ external = {})
       /\ (result = Thrown("not-found", "document")) => external \subseteq {"store.read"}
  /\ del.pc = "done" =>
       /\ ~del.uid.defined =>
            (del.result = Thrown("unauthenticated", "sign-in") /\ external = {})
       /\ (del.uid.defined /\ Blank(del.documentId)) =>
            (del.result = Thrown("invalid-argument", "documentId") /\ external = {})
       /\ (del.result = Thrown("not-found", "document")) => external \subseteq {"store.read"}

(***************************************************************************)
(* Prefilter order, embedding requests, frame of askQuestion               *)
(***************************************************************************)

\* j is ranked before m: a higher score, or the same score and a lower index.
RanksBefore(scores, j, m) ==
  \/ scores[j + 1] > scores[m + 1]
  \/ scores[j + 1] = scores[m + 1] /\ j < m

RequestsFor(cid) == Cardinality({j \in 1..Len(embedLog) : embedLog[j] = cid})

\* The stored vector of candidate k can be compared with the query embedding.
StoredVectorFits(k) ==
  ~NeedReembed(loc.filtered[k].embedding, Len(loc.qEmbedding))

\* C22 (as claimed): in an invocation that has ranked its candidates, a
\* candidate whose stored vector has the length of the query embedding was
\* sent in no embedding request and is ranked by that stored vector, and
\* every other candidate was sent in exactly one embedding request.
C22_OneRequestPerMissingVector ==
  HasRanked =>
    \A k \in 1..Len(loc.filtered) :
      IF StoredVectorFits(k)
      THEN /\ RequestsFor(loc.filtered[k].id) = 0
           /\ loc.filteredComputed[k] = loc.filtered[k].embedding.val
      ELSE RequestsFor(loc.filtered[k].id) = 1

\* C23 (as claimed): in every call of cosineSimilarity made by an invocation,
\* in findRelevantChunks and in the ranking of askQuestion, the two vectors
\* have the same length.
C23_ComparedVectorsSameLength ==
  \A j \in 1..Len(loc.similarityArgs) :
    loc.similarityArgs[j].vecA = loc.similarityArgs[j].vecB

\* The record but for its embedding field.
WithoutEmbedding(record) == [index |-> record.index, text |-> record.text]

\* C25: no step of askQuestion writes a document record, and none creates
\* or deletes a chunk record or changes its index or text; the store changes
\* only at the backfill commit, and only in the embedding field of records
\* of the queried document that exist then and are named in the batch.
C25_OnlyEmbeddingsWritten ==
  [][/\ docs' = docs
     /\ \A d \in DocIds :
          /\ DOMAIN chunkStore'[d] = DOMAIN chunkStore[d]
          /\ \A id \in DOMAIN chunkStore[d] :
               /\ WithoutEmbedding(chunkStore'[d][id]) = WithoutEmbedding(chunkStore[d][id])
               /\ chunkStore'[d][id] # chunkStore[d][id] =>
                    /\ pc = "backfill"
                    /\ req.documentId.val = d
                    /\ \E k \in 1..Len(loc.toBackfill) : loc.toBackfill[k].id = id
                    /\ chunkStore'[d][id].embedding.defined]_vars

\* A backfill has committed: the record of the first item written holds the
\* vector computed for it and the text it had.
C25_Witness ==
  /\ loc.backfill = "committed"
  /\ Len(loc.toBackfill) > 0
  /\ LET item == loc.toBackfill[1]
         rec  == chunkStore[req.documentId.val][item.id]
     IN  /\ rec.embedding = Some(item.values)
         /\ rec.text # <<>>
         /\ \E k \in 1..Len(loc.filtered) :
              /\ loc.filtered[k].id = item.id
              /\ loc.filtered[k].embedding # rec.embedding
              /\ loc.filtered[k].text = rec.text

\* C26: the step that reads the conversation and asks for its summary goes
\* on to retrieval whether the summary came or not (a failed one is left
\* out), and the step that asks for the follow-up questions returns the
\* answer, the citations and the flagged clauses whether they came or not
\* (followUps is empty when they did not): neither failure is an error of
\* askQuestion.
C26_OptionalGenerationsDegrade ==
  [][/\ (pc = "memory") =>
          /\ pc' = "findRelevant"
          /\ result' = Pending
          /\ loc'.summary \in {"none", "ok", "failed"}
     /\ (pc = "followUps") =>
          /\ result'.status = "ok"
          /\ result'.answer = loc.answer
          /\ result'.citations = loc.citations
          /\ result'.flaggedClauses = loc.flaggedClauses
          /\ Len(result'.followUps) \in {0, 2}]_vars

\* An answer returned although both the summary and the follow-up questions
\* failed: it has its citations and a flagged clause, and no follow-ups.
C26_Witness ==
  /\ Answered
  /\ req.remember
  /\ loc.summary = "failed"
  /\ result.followUps = <<>>
  /\ result.answer = "answer"
  /\ Len(result.citations) > 0
  /\ Len(result.flaggedClauses) > 0

(***************************************************************************)
(* Properties of the ingestion                                             *)
(***************************************************************************)

\* The chunk records of the document the event is about.
IngestedRecords == chunkStore[ing.event.val.docId]

IngestEnded == ing.pc = "done"

\* C24 (as claimed): when the event of an upload has been handled a second
\* time, the document has no two chunk records of the same index: the chunk
\* records are those of handling it once.
C24_ReprocessingAddsNothing ==
  (IngestEnded /\ ing.redelivered /\ ing.result.status = "ok") =>
    /\ \A a, b \in DOMAIN IngestedRecords :
         IngestedRecords[a].index = IngestedRecords[b].index => a = b
    /\ Cardinality(DOMAIN IngestedRecords) = Len(ing.chunks)

\* C27: at every moment of a run, the records it has written have the
\* indices 0, 1, ... of the chunks of the slices committed so far, each once
\* and each with the text of the chunk at that place; a record stored with
\* an embedding holds a vector the capability returned for its text; and a
\* run that returns has written all n chunks.
C27_PositionsPreserved ==
  ing.event.defined =>
    LET done == Min(ing.i, Len(ing.chunks))
    IN  /\ ing.written \subseteq DOMAIN IngestedRecords
        /\ Cardinality(ing.written) = (IF ing.pc = "commit" \/ ing.pc = "embed"
                                        \/ IngestEnded THEN done ELSE 0)
        /\ \A i \in 0..(done - 1) :
             \E id \in ing.written :
               /\ IngestedRecords[id].index = i
               /\ IngestedRecords[id].text = ing.chunks[i + 1]
        /\ \A id \in ing.written :
             IngestedRecords[id].embedding.defined =>
               \E k \in 1..Len(ing.returned) :
                 /\ ing.returned[k].text = IngestedRecords[id].text
                 /\ ing.returned[k].values = IngestedRecords[id].embedding.val
        /\ (IngestEnded /\ ing.result.status = "ok" /\ Trim(ing.extractedText) # <<>>)
             => done = Len(ing.chunks)

\* A run has returned after more chunks than a write batch holds, each
\* stored with its embedding, the first and the last with different ones.
C27_Witness ==
  /\ IngestEnded
  /\ ing.result.status = "ok"
  /\ Len(ing.chunks) > IngestBatchSize
  /\ Cardinality(ing.written) = Len(ing.chunks)
  /\ \A id \in ing.written : IngestedRecords[id].embedding.defined
  /\ \E a, b \in ing.written :
       /\ IngestedRecords[a].index = 0
       /\ IngestedRecords[b].index = Len(ing.chunks) - 1
       /\ IngestedRecords[a].embedding # IngestedRecords[b].embedding

\* C30 (as claimed): when a run that has marked the document 'processing'
\* ends, by returning or by throwing, the document is 'ready' or 'failed'.
C30_NeverLeftProcessing ==
  (IngestEnded /\ ing.marked) =>
    /\ docs[ing.event.val.docId].defined
    /\ docs[ing.event.val.docId].val.status \in {"ready", "failed"}

\* C28 (as claimed): an invocation of askQuestion that has loaded its chunks
\* while the document is ingested, or after, has either all the chunks the
\* ingestion writes, one per index, or fallback chunks that hold every word
\* of the extracted text.
C28_NeverAStrictSubset ==
  (ing.event.defined /\ Len(loc.chunks) > 0) =>
    IF OnFallbackChunks
    THEN ConcatMap(LAMBDA k : WordsOf(loc.chunks[k].text), 1, Len(loc.chunks))
           = WordsOf(ing.extractedText)
    ELSE /\ Len(loc.chunks) = Len(ing.chunks)
         /\ \A k \in 1..Len(loc.chunks) :
              /\ loc.chunks[k].index = k - 1
              /\ loc.chunks[k].text = ing.chunks[k]

(***************************************************************************)
(* Properties of the chat sessions                                         *)
(***************************************************************************)

\* C29 (as claimed): a snapshot of the sessions changes activeSessionId only
\* when no session is active, and the session chosen with switchSession or
\* newSession stays the active one while it is not deleted and the user
\* stays signed in.
C29_SnapshotKeepsActiveSession ==
  /\ [][(chat.snapshotDue /\ ~chat'.snapshotDue /\ chat'.user = chat.user
           /\ chat.activeSessionId # <<>>)
          => chat'.activeSessionId = chat.activeSessionId]_vars
  /\ [](chat.selected # <<>> /\ chat.adding = <<>> /\ chat.deleting = <<>>
          => chat.activeSessionId = chat.selected)

====
